---- MODULE Spec2Model ----
(***************************************************************************)
(* WB_Collector: the scrape orchestrator (WBParserService), its scheduler  *)
(* (ParsingScheduler), the sample store (ArticleStorage) and the login     *)
(* session (AuthSession) with its channel receive loop.                    *)
(*                                                                         *)
(* Optional[T] values are sequences: <<>> is None, <<x>> is the value x.   *)
(* A JSON dict file is the set of its entries; key assignment is DictSet.  *)
(***************************************************************************)
EXTENDS Integers, Sequences, FiniteSets, TLC

\* ------------------------------------------------------------------ bounds
\* Number of runs of parse_all_articles started in one behaviour.
MaxStarts == 2
\* Number of failing file operations (_load_json / _save_json) in one behaviour.
MaxFaults == 1
\* Number of inbound channel messages the receive loop handles per session.
MaxMsgs == 2
\* Number of requests that change a store in one behaviour: an article added,
\* an account deleted, updated or added, cookies stored, a proxy added.
MaxEdits == 1
\* Number of pairs (articles x accounts) up to which an article is added
\* where runs overlap (Next); where they do not (SeqNext) there is no cap.
MaxPairs == 2
\* Number of stored results of the article update_analytics is called for.
MaxSamples == 3
\* Number of results stored in all when links are first requested.
MaxLinkSamples == 2

\* ------------------------------------------------------------- value sets
NoneVal == <<>>
Some(x) == <<x>>

\* The requests POST /articles/parse/now being served at one time: each
\* awaits its own parse_all_articles in an executor thread
\* (articles.py:128-131, scheduler.py:42-43).
DemandIds == {"demand", "demand2"}

\* The places a run of parse_all_articles can be started from: the
\* APScheduler interval job and the POST /articles/parse/now requests.
RunIds == {"periodic"} \cup DemandIds

\* Account (models/account.py): cookies is TRUE when a cookies string is
\* stored, FALSE when cookies is None; proxy_uuid is None until a proxy is
\* bound to the account.
Account(u, c) ==
    [uuid |-> u, name |-> "name0", phone |-> "phone0", cookies |-> c,
     proxy_uuid |-> NoneVal]

\* The account after update_account(uuid, proxy_uuid = x)
\* (storage.py:259-260).
WithProxy(account, x) == [account EXCEPT !.proxy_uuid = Some(x)]

\* ParsingResult (models/article.py): the pair, and the ordinal of the
\* result among those parse_article produced for the pair (its parsed_at).
ParsingResult(p, a, n) == [article_id |-> p, account_uuid |-> a, stamp |-> n]

\* A sample left in data/parsing_results.json by an earlier process run for
\* an account that has since been deleted (delete_account keeps the samples).
StaleSample == ParsingResult("p1", "a0", 0)

\* data/cookies_backup.json before update_cookies has written it: the file
\* does not exist.
NoBackup == [state |-> "missing", keys |-> {}]

\* data/cookies_backup.json holding the cookies of the accounts keys.
Backup(keys) == [state |-> "ok", keys |-> keys]

\* The files the process starts with: data/articles.json (article ids in
\* dict order), data/accounts.json (in dict order; cookies = FALSE is an
\* account whose login never completed, cookies None),
\* data/parsing_results.json and data/cookies_backup.json.  In the last
\* scenario update_cookies has backed up the cookies of a2 and then failed
\* to save the account (storage.py:175-185).
Scenario(arts, accs, res, backup) ==
    [articles |-> arts, accounts |-> accs, results |-> res, backup |-> backup]
Scenarios ==
    {Scenario(<<>>, <<Account("a1", TRUE)>>, {}, NoBackup),
     Scenario(<<"p1">>, <<>>, {StaleSample}, NoBackup),
     Scenario(<<"p1", "p2">>, <<Account("a1", TRUE)>>, {}, NoBackup),
     Scenario(<<"p1">>, <<Account("a1", TRUE), Account("a2", TRUE)>>, {}, NoBackup),
     Scenario(<<"p1">>, <<Account("a1", TRUE), Account("a2", FALSE)>>,
              {StaleSample}, NoBackup),
     Scenario(<<>>, <<Account("a1", TRUE), Account("a2", FALSE)>>, {},
              Backup({"a2"}))}

ArticleIdSet == {"p1", "p2"}
AccountIdSet == {"a0", "a1", "a2"}
Pairs == ArticleIdSet \X AccountIdSet

\* ---- login sessions
\* session ids issued by POST /accounts/add_account
SessionIds == {"s1"}
\* session ids of two login attempts made at the same time
TwoSessionIds == {"s1", "s2"}
\* str(uuid4()) of the AuthSession / of the Account created for a session id
SessionUuid(s) == <<"auth", s>>
AccountUuid(s) == IF s = "s1" THEN "a1" ELSE "a2"

\* code.strip() of the raw codes a client sends
RawCodes == {"1111", "2222", " "}
StripKeepsBlank(raw) == raw
Strip(raw) == IF raw = " " THEN "" ELSE raw

\* inbound channel messages: {"type": t, "code": c}
Msg(t, c) == [type |-> t, code |-> c]
InboundMsgs ==
    {Msg("submit_code", c) : c \in RawCodes} \cup {Msg("ping", ""), Msg("other", "")}

\* status steps of login_and_get_cookies_with_ws in emission order
\* (wb_auth.py:152-343); wait_for_code is called after "waiting_for_code".
StatusSteps == <<"started", "page_loaded", "entering_phone", "code_requested",
                 "waiting_for_code", "entering_code", "verifying", "success">>

NewSession == [code |-> NoneVal, code_event |-> FALSE]

\* The restore_cookies command is not running: pc is "write" between its
\* read of accounts.json and its write, data the accounts_data it has then;
\* before holds accounts.json as it was before the writes the command has
\* made since the last step of the event loop of the server.
NoRestore == [pc |-> "idle", data |-> <<>>, before |-> {}]

VARIABLES
    articles_file,   \* data/articles.json
    accounts_file,   \* data/accounts.json
    results_file,    \* data/parsing_results.json: set of ParsingResult
    analytics_file,  \* data/analytics.json: set of ArticleAnalytics
    proxies_file,    \* data/proxies.json (its keys: the proxy uuids)
    cookies_backup,  \* data/cookies_backup.json (its state and its keys)
    restore,         \* the process of python -m app.db.restore_cookies
    run,             \* per start place: the thread running parse_all_articles
    parse_now_resp,  \* per request: Optional response of POST /articles/parse/now
    produced,        \* history: results parse_article has produced per pair
    starts,          \* history: runs started
    faults,          \* history: failed file operations
    edits,           \* history: requests that changed a store
    temp_sessions,   \* add_account._temp_sessions (its keys)
    active_sessions, \* ws_manager.active_sessions (its keys)
    handler,         \* per session id: position of the websocket_auth handler
    sess,            \* per session id: the AuthSession (code, code_event)
    flow,            \* per session id: position of the _run_auth task
    wait_ret,        \* per session id: what wait_for_code returned
    outbox,          \* per session id: events delivered to the channel
    handled,         \* history: inbound messages the receive loop handled
    op_arg,          \* the arguments of a single call made on a component
    op_ret           \* Optional: what that call returned

scrapeVars == <<articles_file, results_file, analytics_file, proxies_file,
                cookies_backup, restore, run,
                parse_now_resp, produced, starts, faults, edits>>
authVars == <<temp_sessions, active_sessions, handler, sess, flow, wait_ret,
              outbox, handled>>
opVars == <<op_arg, op_ret>>
vars == <<articles_file, accounts_file, results_file, analytics_file,
          proxies_file, cookies_backup, restore, run,
          parse_now_resp, produced, starts, faults, edits, temp_sessions,
          active_sessions, handler, sess, flow, wait_ret, outbox, handled,
          op_arg, op_ret>>

\* ---------------------------------------------------------------- helpers
\* DictSet with the entry appended as to a list of results.
DictSetKeepsOld(data, r) == data \cup {r}

\* data[article_id][account_uuid] = result.to_dict()
\* (article_storage.py:104-108): the entry of the same key is replaced.
DictSet(data, r) ==
    {e \in data : ~(e.article_id = r.article_id /\ e.account_uuid = r.account_uuid)}
        \cup {r}

\* data[article_id] = analytics.to_dict() (article_storage.py:177)
AnalyticsSet(data, an) ==
    {e \in data : e.article_id # an.article_id} \cup {an}

\* get_parsing_results(article_id): the stored results of one article.
GetParsingResults(store, p) == {e \in store : e.article_id = p}

\* NothingToParse without the check of the accounts.
NothingToParseArticlesOnly(articles, accounts) == articles = <<>>

\* The early returns of parse_all_articles (wb_parser.py:636-642).
NothingToParse(articles, accounts) == articles = <<>> \/ accounts = <<>>

\* What parse_article can do for an account: return a ParsingResult ("ok"),
\* return None ("none": any exception inside its try block, or no data), or
\* raise ("raise": the driver is created before the try block, line 128).
\* Without cookies json.loads(cookies) fails inside the try: never "ok".
ParseOutcomes(account) ==
    IF account.cookies THEN {"ok", "none", "raise"} ELSE {"none", "raise"}

IdleRun ==
    [pc |-> "idle", articles |-> <<>>, accounts |-> <<>>, i |-> 0, j |-> 0,
     total_parsed |-> 0, result |-> NoneVal, data |-> {}, adata |-> {},
     ret |-> NoneVal,
     ncalls |-> 0, nsucc |-> 0, nwrites |-> 0, log |-> <<>>]

\* What _save_json can do (article_storage.py:45-51): write the file ("ok"),
\* fail in open() and leave the file as it was ("unopened"), or fail in
\* json.dump after open(..., "w") has truncated the file ("truncated").  The
\* exception is logged and not reported.
WriteOutcomes == {"ok", "unopened", "truncated"}

\* The dict _load_json reads back after _save_json(file, data): a truncated
\* file does not parse and _load_json returns {} for it
\* (article_storage.py:36-43).
Written(file, data, outcome) ==
    CASE outcome = "ok" -> data
      [] outcome = "unopened" -> file
      [] outcome = "truncated" -> {}

\* Entries of the history a run keeps in its log field: a parse_article
\* call for a pair, a time.sleep(2), an update_analytics call for an article.
CallEntry(p, a, proxy_data) ==
    [ev |-> "call", pair |-> <<p, a>>, proxy_data |-> proxy_data]
SleepEntry == [ev |-> "sleep", pair |-> <<>>, proxy_data |-> NoneVal]
AnalyticsEntry(p) == [ev |-> "analytics", pair |-> <<p>>, proxy_data |-> NoneVal]

\* get_proxy of a proxy that was deleted still answering with it.
GetProxyKeepsDeleted(proxies, proxy_uuid) == Some(proxy_uuid)

\* ProxyStorage.get_proxy (proxy_storage.py:80-98): proxies.get(proxy_uuid),
\* None for a uuid that is not a key of the file.
GetProxy(proxies, proxy_uuid) ==
    IF proxy_uuid \in proxies THEN Some(proxy_uuid) ELSE NoneVal

\* proxy_data of a turn of parse_all_articles (wb_parser.py:650-655): None
\* for an account without proxy_uuid, else what get_proxy returns.
ProxyData(proxies, account) ==
    IF account.proxy_uuid = NoneVal THEN NoneVal
    ELSE GetProxy(proxies, account.proxy_uuid[1])

\* ------------------------------------------------------------------- Init
\* ArticleAnalytics written by update_analytics (article_storage.py:167-173)
ArticleAnalytics(p, results) ==
    [article_id |-> p, total_parses |-> Cardinality(results)]

\* data/analytics.json as the run that stored the results left it: the
\* analytics of every article that has stored results.
AnalyticsOfStore(results) ==
    {ArticleAnalytics(p, GetParsingResults(results, p)) :
        p \in {e.article_id : e \in results}}

\* No single call is being examined.
NoCall == op_arg = NoneVal /\ op_ret = NoneVal

\* No login has been requested: add_account._temp_sessions does not exist,
\* ws_manager.active_sessions = {} (ws_manager.py:99).
NoSessionsOf(ids) ==
    /\ temp_sessions = {}
    /\ active_sessions = {}
    /\ handler = [s \in ids |-> "none"]
    /\ sess = [s \in ids |-> NewSession]
    /\ flow = [s \in ids |-> "none"]
    /\ wait_ret = [s \in ids |-> NoneVal]
    /\ outbox = [s \in ids |-> <<>>]
    /\ handled = [s \in ids |-> <<>>]

NoSessions == NoSessionsOf(SessionIds)

Init ==
    /\ \E sc \in Scenarios :
         /\ articles_file = sc.articles
         /\ accounts_file = sc.accounts
         /\ results_file = sc.results
         /\ analytics_file = AnalyticsOfStore(sc.results)
         /\ cookies_backup = sc.backup
    /\ proxies_file = {}
    /\ restore = NoRestore
    /\ run = [r \in RunIds |-> IdleRun]
    /\ parse_now_resp = [d \in DemandIds |-> NoneVal]
    /\ produced = [pr \in Pairs |-> 0]
    /\ starts = 0
    /\ faults = 0
    /\ edits = 0
    /\ NoSessions
    /\ NoCall

\* ---------------------------------------------------------------- actions
\* The loop headers of parse_all_articles entered for the first time
\* (wb_parser.py:647-649, 670): a for over an empty list has no turn.
EnterLoops(rec) ==
    IF rec.articles = <<>>
    THEN [rec EXCEPT !.pc = "done", !.ret = Some(rec.total_parsed)]
    ELSE IF rec.accounts = <<>>
         THEN [rec EXCEPT !.pc = "analytics", !.i = 1]
         ELSE [rec EXCEPT !.pc = "parse", !.i = 1, !.j = 1]

\* article_storage.get_all_articles() (article_storage.py:73-91): the
\* articles of data/articles.json in dict order; [] when the file cannot be
\* read or parsed (_load_json returns {}, any other exception is caught).
GetAllArticles(file, ok) == IF ok THEN file ELSE <<>>

\* account_storage.get_all_accounts() (storage.py:198-225): the accounts of
\* data/accounts.json in dict order; [] when the file cannot be read or
\* parsed (_load_data returns {}, any other exception is caught).
GetAllAccounts(file, ok) == IF ok THEN file ELSE <<>>

\* parse_all_articles up to its first parse_article call
\* (wb_parser.py:631-645), on the lists the two stores returned: return 0
\* if either is empty.
BeginParseAll(articles, accounts) ==
    LET rec == [IdleRun EXCEPT !.articles = articles, !.accounts = accounts]
    IN  IF NothingToParse(rec.articles, rec.accounts)
        THEN [rec EXCEPT !.pc = "done", !.ret = Some(0)]
        ELSE EnterLoops(rec)

\* A thread starts parse_all_articles for r: both stores are read, each
\* read failing or not, then BeginParseAll.
StartParseAll(r) ==
    \E oka, okc \in BOOLEAN :
        LET nfail == (IF oka THEN 0 ELSE 1) + (IF okc THEN 0 ELSE 1)
        IN /\ faults + nfail <= MaxFaults
           /\ faults' = faults + nfail
           /\ run' = [run EXCEPT ![r] =
                        BeginParseAll(GetAllArticles(articles_file, oka),
                                      GetAllAccounts(accounts_file, okc))]

\* The APScheduler interval job fires _run_parsing (scheduler.py:29-46).
\* APScheduler runs at most one instance of a job (max_instances = 1): a
\* tick that finds the job still running is skipped.
Tick ==
    /\ starts < MaxStarts
    /\ run["periodic"].pc = "idle"
    /\ StartParseAll("periodic")
    /\ starts' = starts + 1
    /\ UNCHANGED <<articles_file, accounts_file, results_file, analytics_file,
                   parse_now_resp, produced, proxies_file, cookies_backup, restore, edits, authVars, opVars>>

\* POST /articles/parse/now -> run_now -> _run_parsing
\* (articles.py:128-131, scheduler.py:63-66, 39-46): no check of a run in
\* flight, of the interval job or of another request.  A request takes the
\* first request slot that is free.
RunNow ==
    /\ starts < MaxStarts
    /\ \E d \in DemandIds :
         /\ run[d].pc = "idle"
         /\ d = "demand2" => run["demand"].pc # "idle"
         /\ StartParseAll(d)
         /\ parse_now_resp' = [parse_now_resp EXCEPT ![d] = NoneVal]
    /\ starts' = starts + 1
    /\ UNCHANGED <<articles_file, accounts_file, results_file, analytics_file,
                   produced, proxies_file, cookies_backup, restore, edits, authVars, opVars>>

\* A failed parse_article retried at once.
PcAfterParseRetry(outcome) ==
    CASE outcome = "ok" -> "load"
      [] outcome = "none" -> "parse"
      [] outcome = "raise" -> "raised"

\* Where parse_all_articles goes after parse_article (wb_parser.py:658-667):
\* to add_parsing_result with a result, to time.sleep(2) with None, out of
\* the function with an exception.
PcAfterParse(outcome) ==
    CASE outcome = "ok" -> "load"
      [] outcome = "none" -> "sleep"
      [] outcome = "raise" -> "raised"

\* The turn of an account up to the end of parse_article
\* (wb_parser.py:650-664): proxy_data is looked up (for an account with a
\* proxy_uuid data/proxies.json is read; get_proxy returns None when the read
\* fails, proxy_storage.py:96-98), then
\* result = self.parse_article(..., proxy_data=proxy_data).
ParseArticle(r) ==
    /\ run[r].pc = "parse"
    /\ LET p   == run[r].articles[run[r].i]
           acc == run[r].accounts[run[r].j]
           pr  == <<p, acc.uuid>>
       IN \E outcome \in ParseOutcomes(acc), ok \in BOOLEAN :
            /\ ~ok => (faults < MaxFaults /\ acc.proxy_uuid # NoneVal)
            /\ faults' = IF ok THEN faults ELSE faults + 1
            /\ produced' = IF outcome = "ok"
                           THEN [produced EXCEPT ![pr] = @ + 1]
                           ELSE produced
            /\ run' = [run EXCEPT ![r] =
                 [@ EXCEPT !.pc = PcAfterParse(outcome),
                           !.ncalls = @ + 1,
                           !.nsucc = IF outcome = "ok" THEN @ + 1 ELSE @,
                           !.log = Append(@, CallEntry(p, acc.uuid,
                                     ProxyData(IF ok THEN proxies_file ELSE {},
                                               acc))),
                           !.result = IF outcome = "ok"
                                      THEN Some(ParsingResult(p, acc.uuid,
                                                    produced[pr] + 1))
                                      ELSE NoneVal]]
    /\ UNCHANGED <<articles_file, accounts_file, results_file, analytics_file,
                   parse_now_resp, starts, proxies_file, cookies_backup, restore, edits, authVars, opVars>>

\* add_parsing_result, first half: data = self._load_json(self.results_file)
\* (article_storage.py:98, 36-43): a failed read yields {}.
LoadResults(r) ==
    /\ run[r].pc = "load"
    /\ \E ok \in BOOLEAN :
         /\ ~ok => faults < MaxFaults
         /\ faults' = IF ok THEN faults ELSE faults + 1
         /\ run' = [run EXCEPT ![r] =
                      [@ EXCEPT !.pc = "save",
                                !.data = IF ok THEN results_file ELSE {}]]
    /\ UNCHANGED <<articles_file, accounts_file, results_file, analytics_file,
                   parse_now_resp, produced, starts, proxies_file, cookies_backup, restore, edits, authVars, opVars>>

\* add_parsing_result, second half, and the counter
\* (article_storage.py:104-111, 45-51; wb_parser.py:665-666): the entry is
\* assigned and the whole file rewritten; a failed write is logged by
\* _save_json and not reported (it leaves the file as it was or empty);
\* total_parsed += 1 either way.
SaveResults(r) ==
    /\ run[r].pc = "save"
    /\ \E w \in WriteOutcomes :
         /\ w # "ok" => faults < MaxFaults
         /\ faults' = IF w = "ok" THEN faults ELSE faults + 1
         /\ results_file' = Written(results_file,
                                    DictSet(run[r].data, run[r].result[1]), w)
    /\ run' = [run EXCEPT ![r] =
                 [@ EXCEPT !.pc = "sleep", !.data = {},
                           !.total_parsed = @ + 1, !.nwrites = @ + 1]]
    /\ UNCHANGED <<articles_file, accounts_file, analytics_file,
                   parse_now_resp, produced, starts, proxies_file, cookies_backup, restore, edits, authVars, opVars>>

\* The loop headers advancing account by account and, at the last account,
\* to the next article.
NextTurnAccountMajor(rec) ==
    IF rec.i < Len(rec.articles)
    THEN [rec EXCEPT !.pc = "parse", !.i = @ + 1]
    ELSE IF rec.j < Len(rec.accounts)
         THEN [rec EXCEPT !.pc = "parse", !.j = @ + 1, !.i = 1]
         ELSE [rec EXCEPT !.pc = "analytics", !.i = 1, !.j = 0]

\* The loop headers (wb_parser.py:647-649): the next account of the article,
\* else the first account of the next article, else the analytics loop.
NextTurn(rec) ==
    IF rec.j < Len(rec.accounts)
    THEN [rec EXCEPT !.pc = "parse", !.j = @ + 1]
    ELSE IF rec.i < Len(rec.articles)
         THEN [rec EXCEPT !.pc = "parse", !.i = @ + 1, !.j = 1]
         ELSE [rec EXCEPT !.pc = "analytics", !.i = 1, !.j = 0]

\* time.sleep(2) at the end of the turn, then the loop headers
\* (wb_parser.py:667, 647-649).
Sleep(r) ==
    /\ run[r].pc = "sleep"
    /\ run' = [run EXCEPT ![r] =
                 NextTurn([@ EXCEPT !.log = Append(@, SleepEntry)])]
    /\ UNCHANGED <<articles_file, accounts_file, results_file, analytics_file,
                   parse_now_resp, produced, starts, faults, proxies_file, cookies_backup, restore, edits, authVars, opVars>>

\* The closing loop after update_analytics has returned for an article
\* (wb_parser.py:670-673): the next article, or return total_parsed.
NextArticle(rec) ==
    LET last == rec.i = Len(rec.articles)
    IN  [rec EXCEPT !.i = IF last THEN @ ELSE @ + 1,
                    !.pc = IF last THEN "done" ELSE "analytics",
                    !.ret = IF last THEN Some(rec.total_parsed) ELSE @,
                    !.data = {}, !.adata = {}]

\* article_storage.update_analytics(article.article_id) for one article of
\* the closing loop, first file operation: get_parsing_results
\* (wb_parser.py:670-671, article_storage.py:148-151, 116-141).  A failed
\* read yields no results; without results update_analytics returns None.
UpdateAnalytics(r) ==
    /\ run[r].pc = "analytics"
    /\ \E ok \in BOOLEAN :
         /\ ~ok => faults < MaxFaults
         /\ faults' = IF ok THEN faults ELSE faults + 1
         /\ LET p       == run[r].articles[run[r].i]
                results == IF ok THEN GetParsingResults(results_file, p) ELSE {}
                rec     == [run[r] EXCEPT !.log = Append(@, AnalyticsEntry(p))]
            IN run' = [run EXCEPT ![r] =
                  IF results = {} THEN NextArticle(rec)
                  ELSE [rec EXCEPT !.pc = "an_load", !.data = results]]
    /\ UNCHANGED <<articles_file, accounts_file, results_file, analytics_file,
                   parse_now_resp, produced, starts, proxies_file, cookies_backup, restore, edits, authVars,
                   opVars>>

\* update_analytics, second file operation:
\* data = self._load_json(self.analytics_file) (article_storage.py:176): a
\* failed read yields {}.
LoadAnalytics(r) ==
    /\ run[r].pc = "an_load"
    /\ \E ok \in BOOLEAN :
         /\ ~ok => faults < MaxFaults
         /\ faults' = IF ok THEN faults ELSE faults + 1
         /\ run' = [run EXCEPT ![r] =
                      [@ EXCEPT !.pc = "an_save",
                                !.adata = IF ok THEN analytics_file ELSE {}]]
    /\ UNCHANGED <<articles_file, accounts_file, results_file, analytics_file,
                   parse_now_resp, produced, starts, proxies_file, cookies_backup, restore, edits, authVars,
                   opVars>>

\* update_analytics, third file operation, and the closing loop after it
\* (article_storage.py:177-181, 45-51; wb_parser.py:670-673): the record of
\* the article is assigned in the dict that was loaded and the whole file
\* rewritten; a failed write is logged and not reported.
SaveAnalytics(r) ==
    /\ run[r].pc = "an_save"
    /\ \E w \in WriteOutcomes :
         /\ w # "ok" => faults < MaxFaults
         /\ faults' = IF w = "ok" THEN faults ELSE faults + 1
         /\ LET p == run[r].articles[run[r].i]
            IN analytics_file' =
                 Written(analytics_file,
                         AnalyticsSet(run[r].adata,
                                      ArticleAnalytics(p, run[r].data)), w)
    /\ run' = [run EXCEPT ![r] = NextArticle([@ EXCEPT !.nwrites = @ + 1])]
    /\ UNCHANGED <<articles_file, accounts_file, results_file,
                   parse_now_resp, produced, starts, proxies_file, cookies_backup, restore, edits, authVars,
                   opVars>>

\* _run_parsing after the executor call (scheduler.py:42-48): the value of
\* parse_all_articles is dropped, an exception is logged; returns None.
RunParsingReturn == NoneVal

\* _run_parsing starting parse_all_articles again after an exception.
AfterRunParsingRetries(rec) ==
    IF rec.pc = "raised" THEN BeginParseAll(articles_file, accounts_file)
    ELSE [IdleRun EXCEPT !.ret = rec.ret]

\* The thread of a run once _run_parsing has returned (scheduler.py:42-48):
\* whether parse_all_articles returned or raised (the exception is caught
\* and logged), nothing is running and nothing is started.
AfterRunParsing(rec) == [IdleRun EXCEPT !.ret = rec.ret]

\* A step of the event loop has ended: the requests are served one at a
\* time, by code that does not yield between its read of a file and its
\* write, so no request that read accounts.json before a write of the
\* restore command is still to save.
Settled(r) == [r EXCEPT !.before = {}]

\* What _load_data returned to a request that now saves (storage.py:37-49,
\* no lock on the file): accounts.json as it is, or, when the restore
\* command has written the file between the read of the request and its
\* save, as it was before that write.
AccountsRead == {accounts_file} \cup restore.before

\* The periodic job instance ends.
JobEnd ==
    /\ run["periodic"].pc \in {"done", "raised"}
    /\ run' = [run EXCEPT !["periodic"] = AfterRunParsing(@)]
    /\ restore' = Settled(restore)
    /\ UNCHANGED <<articles_file, accounts_file, results_file, analytics_file,
                   parse_now_resp, produced, starts, faults, proxies_file, cookies_backup, edits, authVars, opVars>>

\* run_now returns what _run_parsing returned, parse_now puts it in the
\* ParsingStatus (scheduler.py:66, articles.py:131-137).
ParseNowRespond(d) ==
    /\ run[d].pc \in {"done", "raised"}
    /\ run' = [run EXCEPT ![d] = AfterRunParsing(@)]
    /\ parse_now_resp' = [parse_now_resp EXCEPT ![d] =
                             Some([status |-> "success",
                                   total_parsed |-> RunParsingReturn])]
    /\ restore' = Settled(restore)
    /\ UNCHANGED <<articles_file, accounts_file, results_file, analytics_file,
                   produced, starts, faults, proxies_file, cookies_backup, edits, authVars, opVars>>

\* The article ids of data/articles.json.
ArticleIds(data) == {data[k] : k \in 1..Len(data)}

\* data/articles.json as _load_json reads it back after
\* _save_json(self.articles_file, data).
WrittenArticles(file, data, outcome) ==
    CASE outcome = "ok" -> data
      [] outcome = "unopened" -> file
      [] outcome = "truncated" -> <<>>

\* POST /articles/add -> ArticleStorage.add_article (articles.py:22-56,
\* article_storage.py:55-71): an id found in the dict that was loaded is
\* answered 400 and nothing is written; else the key is added at the end of
\* the dict and the whole file rewritten.  A failed read yields {}; a
\* failed write is logged and not reported.
AddArticle(p) ==
    /\ edits < MaxEdits
    /\ edits' = edits + 1
    /\ \E ok \in BOOLEAN, w \in WriteOutcomes :
         LET data  == IF ok THEN articles_file ELSE <<>>
             nfail == (IF ok THEN 0 ELSE 1) + (IF w = "ok" THEN 0 ELSE 1)
         IN /\ faults + nfail <= MaxFaults
            /\ p \notin ArticleIds(data)
            /\ faults' = faults + nfail
            /\ articles_file' = WrittenArticles(articles_file, Append(data, p), w)
    /\ restore' = Settled(restore)
    /\ UNCHANGED <<accounts_file, results_file, analytics_file, run,
                   parse_now_resp, produced, starts, proxies_file, cookies_backup, authVars,
                   opVars>>

\* The account is a key of the file (storage.py:248-252, 291-293).
Known(accounts, uuid) == \E k \in 1..Len(accounts) : accounts[k].uuid = uuid

\* data/accounts.json after delete_account (storage.py:288-298): the key is
\* removed when the account is found and _save_data, which writes a
\* temporary file and renames it, succeeds.
DeleteAccountFile(accounts, uuid, saved) ==
    IF Known(accounts, uuid) /\ saved
    THEN SelectSeq(accounts, LAMBDA a : a.uuid # uuid)
    ELSE accounts

\* What delete_account returns: False for an unknown account and when
\* _save_data raised.
DeleteAccountResult(accounts, uuid, saved) == Known(accounts, uuid) /\ saved

\* DELETE /accounts/delete/{account_uuid} -> AccountStorage.delete_account
\* (accounts.py:211-245, storage.py:278-302) for an account of the file,
\* the write succeeding; a uuid that is not there is answered 404.  The
\* stored results of the account are kept.
DeleteAccount(u) ==
    /\ edits < MaxEdits
    /\ edits' = edits + 1
    /\ \E data \in AccountsRead :
         /\ Known(data, u)
         /\ accounts_file' = DeleteAccountFile(data, u, TRUE)
    /\ restore' = Settled(restore)
    /\ UNCHANGED <<articles_file, results_file, analytics_file, run,
                   parse_now_resp, produced, starts, faults, proxies_file, cookies_backup,
                   authVars, opVars>>

\* The arguments of a call, None for one that is not passed, and whether
\* the write of the file succeeds.
UpdateArgs ==
    [account_uuid : {"a1", "a0"},
     name : {NoneVal, Some("name1")},
     phone : {NoneVal, Some("phone1")},
     proxy_uuid : {NoneVal, Some("x2")},
     saved : BOOLEAN]

\* The arguments of a delete_account call, and whether the write of the
\* file succeeds.
DeleteArgs == [account_uuid : {"a1", "a0"}, saved : BOOLEAN]

\* The record update_account writes for the account it found
\* (storage.py:254-263): name and phone are assigned when passed;
\* proxy_uuid is assigned when passed and deleted when it is None.
UpdatedAccount(account, args) ==
    [account EXCEPT
        !.name = IF args.name # NoneVal THEN args.name[1] ELSE @,
        !.phone = IF args.phone # NoneVal THEN args.phone[1] ELSE @,
        !.proxy_uuid = args.proxy_uuid]

\* data/accounts.json after update_account (storage.py:246-276): the
\* record is rewritten when the account is found and _save_data succeeds.
UpdateAccountFile(accounts, args) ==
    IF Known(accounts, args.account_uuid) /\ args.saved
    THEN [k \in 1..Len(accounts) |->
            IF accounts[k].uuid = args.account_uuid
            THEN UpdatedAccount(accounts[k], args) ELSE accounts[k]]
    ELSE accounts

\* What update_account returns: False for an unknown account and when
\* _save_data raised.
UpdateAccountResult(accounts, args) ==
    Known(accounts, args.account_uuid) /\ args.saved

\* What AccountStorage.add_account can do (storage.py:80-106, 37-72): store
\* the account ("ok"); store it in the empty dict _load_data returns for a
\* file that cannot be read or parsed ("unread": the accounts stored before
\* are lost, add_account returns True); or fail in _save_data, which leaves
\* the file as it was ("unsaved": add_account returns False).
AddAccountOutcomes == {"ok", "unread", "unsaved"}

\* data/accounts.json after add_account(account).
AddAccountFile(accounts, account, outcome) ==
    CASE outcome = "ok" -> Append(accounts, account)
      [] outcome = "unread" -> <<account>>
      [] outcome = "unsaved" -> accounts

\* What add_account returns.
AddAccountResult(outcome) == outcome # "unsaved"

\* account_storage.update_cookies: the cookies are written to the account
\* when its save succeeds (storage.py:139-196).
UpdateCookies(accounts, uuid, ok) ==
    [k \in 1..Len(accounts) |->
        IF ok /\ accounts[k].uuid = uuid
        THEN [accounts[k] EXCEPT !.cookies = TRUE] ELSE accounts[k]]

\* data/cookies_backup.json after update_cookies has backed up the cookies
\* of an account it found (storage.py:159-181): the file is read if it
\* exists, the entry of the account assigned and the file rewritten with
\* open(..., "w") and json.dump.  A file that does not parse stays as it is
\* (the read raises); a failed write leaves the file as it was or cut.  The
\* exception is logged and update_cookies goes on.
BackupCookies(backup, uuid, outcome) ==
    IF backup.state = "cut" THEN backup
    ELSE CASE outcome = "ok" ->
                [state |-> "ok", keys |-> backup.keys \cup {uuid}]
           [] outcome = "unopened" -> backup
           [] outcome = "truncated" -> [state |-> "cut", keys |-> {}]

\* The arguments of restore_cookies_from_backup: --all, or an account uuid.
RestoreArgs == {"--all"} \cup AccountIdSet

\* accounts_data after the assignments of restore_cookies_from_backup
\* (restore_cookies.py:44-70): the cookies of the backup are given to every
\* account of the backup (--all) or to the one named.
RestoredAccounts(accounts, keys, arg) ==
    [k \in 1..Len(accounts) |->
        IF accounts[k].uuid \in keys /\ arg \in {"--all", accounts[k].uuid}
        THEN [accounts[k] EXCEPT !.cookies = TRUE] ELSE accounts[k]]

\* data/accounts.json as _load_data reads it back after
\* restore_cookies_from_backup has written it with open(..., "w") and
\* json.dump (restore_cookies.py:77-78): a file cut by a failed write does
\* not parse and is read as {}.
WrittenAccounts(file, data, outcome) ==
    CASE outcome = "ok" -> data
      [] outcome = "unopened" -> file
      [] outcome = "truncated" -> <<>>

\* python -m app.db.restore_cookies <uuid> | --all, a process of its own,
\* up to its write (restore_cookies.py:23-74), run while a backup that
\* parses is there: the backup and accounts.json are read and the cookies
\* assigned in accounts_data.  It returns False, with nothing written, when
\* a read fails and for a uuid missing from the backup or from the accounts.
RestoreCookiesRead(arg) ==
    /\ restore.pc = "idle"
    /\ cookies_backup.state = "ok"
    /\ \E ok \in BOOLEAN :
         /\ ~ok => faults < MaxFaults
         /\ faults' = IF ok THEN faults ELSE faults + 1
         /\ restore' =
               IF /\ ok
                  /\ arg # "--all" =>
                        (arg \in cookies_backup.keys /\ Known(accounts_file, arg))
               THEN [restore EXCEPT
                        !.pc = "write",
                        !.data = RestoredAccounts(accounts_file,
                                                  cookies_backup.keys, arg)]
               ELSE restore
    /\ UNCHANGED <<articles_file, accounts_file, results_file, analytics_file,
                   proxies_file, cookies_backup, run, parse_now_resp, produced,
                   starts, edits, authVars, opVars>>

\* restore_cookies_from_backup, its write (restore_cookies.py:77-81):
\* accounts.json is rewritten with the accounts_data of the read, whatever
\* the server has written since.
RestoreCookiesWrite ==
    /\ restore.pc = "write"
    /\ \E w \in WriteOutcomes :
         /\ w # "ok" => faults < MaxFaults
         /\ faults' = IF w = "ok" THEN faults ELSE faults + 1
         /\ accounts_file' = WrittenAccounts(accounts_file, restore.data, w)
    /\ restore' = [pc |-> "idle", data |-> <<>>,
                   before |-> restore.before \cup ({accounts_file} \ {accounts_file'})]
    /\ UNCHANGED <<articles_file, results_file, analytics_file, proxies_file,
                   cookies_backup, run, parse_now_resp, produced, starts, edits,
                   authVars, opVars>>

ProxyIds == {"x1", "x2"}

\* DELETE /proxies/delete/{proxy_uuid} -> ProxyStorage.delete_proxy
\* (proxies.py:163-198, proxy_storage.py:117-146): the key is removed from
\* data/proxies.json; a uuid that is not there is answered 404.  The file is
\* rewritten with open(..., 'w') and json.dump: a failed write leaves it as
\* it was or empty, and get_proxy returns None for every uuid of a file
\* that does not parse.
DeleteProxy(x) ==
    /\ x \in proxies_file
    /\ \E w \in WriteOutcomes :
         /\ w # "ok" => faults < MaxFaults
         /\ faults' = IF w = "ok" THEN faults ELSE faults + 1
         /\ proxies_file' = Written(proxies_file, proxies_file \ {x}, w)
    /\ restore' = Settled(restore)
    /\ UNCHANGED <<articles_file, accounts_file, results_file, analytics_file,
                   cookies_backup, run, parse_now_resp, produced, starts, edits,
                   authVars, opVars>>

\* PUT /accounts/update/{account_uuid} -> AccountStorage.update_account
\* (accounts.py:157-209, storage.py:227-276): an account get_account does not
\* find is answered 404; else the record is rewritten, or the file left as
\* it was when _save_data raises.
UpdateAccount(args) ==
    /\ edits < MaxEdits
    /\ edits' = edits + 1
    /\ \E data \in AccountsRead :
         /\ Known(data, args.account_uuid)
         /\ accounts_file' = IF args.saved THEN UpdateAccountFile(data, args)
                              ELSE accounts_file
    /\ restore' = Settled(restore)
    /\ UNCHANGED <<articles_file, results_file, analytics_file, run,
                   parse_now_resp, produced, starts, faults, proxies_file,
                   cookies_backup, authVars, opVars>>

\* account_storage.add_account(account) as _run_auth calls it for the
\* Account of a login that has begun (ws_routes.py:106-110,
\* storage.py:80-106): the uuid is a fresh uuid4.
AddAccount(u) ==
    /\ edits < MaxEdits
    /\ edits' = edits + 1
    /\ ~Known(accounts_file, u)
    /\ \E o \in AddAccountOutcomes :
         /\ o # "ok" => faults < MaxFaults
         /\ faults' = IF o = "ok" THEN faults ELSE faults + 1
         /\ \E data \in AccountsRead :
              accounts_file' = IF o = "unsaved" THEN accounts_file
                               ELSE AddAccountFile(data, Account(u, FALSE), o)
    /\ restore' = Settled(restore)
    /\ UNCHANGED <<articles_file, results_file, analytics_file, run,
                   parse_now_resp, produced, starts, proxies_file,
                   cookies_backup, authVars, opVars>>

\* account_storage.update_cookies(uuid, cookies) as _run_auth calls it for
\* the account of a login that has obtained cookies (ws_routes.py:126-127,
\* storage.py:139-196): an account stored without cookies.
StoreCookies(u) ==
    /\ edits < MaxEdits
    /\ edits' = edits + 1
    /\ \E data \in AccountsRead :
         /\ \E k \in 1..Len(data) : data[k].uuid = u /\ ~data[k].cookies
         /\ \E read \in BOOLEAN, saved \in BOOLEAN, b \in WriteOutcomes :
              LET nfail == (IF read THEN 0 ELSE 1) + (IF saved THEN 0 ELSE 1)
                           + (IF b = "ok" THEN 0 ELSE 1)
              IN /\ faults + nfail <= MaxFaults
                 /\ faults' = faults + nfail
                 /\ accounts_file' = IF read /\ saved THEN UpdateCookies(data, u, TRUE)
                                      ELSE accounts_file
                 /\ cookies_backup' = IF read THEN BackupCookies(cookies_backup, u, b)
                                      ELSE cookies_backup
    /\ restore' = Settled(restore)
    /\ UNCHANGED <<articles_file, results_file, analytics_file, run,
                   parse_now_resp, produced, starts, proxies_file, authVars,
                   opVars>>

\* POST /proxies/add -> ProxyStorage.add_proxy (proxies.py:36-83,
\* proxy_storage.py:33-78): the proxy is stored under a fresh uuid4; the
\* file is rewritten with open(..., 'w') and json.dump.
AddProxy(x) ==
    /\ edits < MaxEdits
    /\ edits' = edits + 1
    /\ x \notin proxies_file
    /\ \E w \in WriteOutcomes :
         /\ w # "ok" => faults < MaxFaults
         /\ faults' = IF w = "ok" THEN faults ELSE faults + 1
         /\ proxies_file' = Written(proxies_file, proxies_file \cup {x}, w)
    /\ restore' = Settled(restore)
    /\ UNCHANGED <<articles_file, accounts_file, results_file, analytics_file,
                   cookies_backup, run, parse_now_resp, produced, starts,
                   authVars, opVars>>

Next ==
    \/ Tick
    \/ RunNow
    \/ \E r \in RunIds : ParseArticle(r)
    \/ \E r \in RunIds : LoadResults(r)
    \/ \E r \in RunIds : SaveResults(r)
    \/ \E r \in RunIds : Sleep(r)
    \/ \E r \in RunIds : UpdateAnalytics(r)
    \/ \E r \in RunIds : LoadAnalytics(r)
    \/ \E r \in RunIds : SaveAnalytics(r)
    \/ JobEnd
    \/ \E d \in DemandIds : ParseNowRespond(d)
    \/ \E p \in ArticleIdSet :
          /\ (Len(articles_file) + 1) * Len(accounts_file) <= MaxPairs
          /\ AddArticle(p)
    \/ \E u \in AccountIdSet : DeleteAccount(u)
    \/ \E args \in UpdateArgs : UpdateAccount(args)
    \/ \E u \in AccountIdSet :
          /\ Len(articles_file) * (Len(accounts_file) + 1) <= MaxPairs
          /\ AddAccount(u)
    \/ \E u \in AccountIdSet : StoreCookies(u)
    \/ \E arg \in RestoreArgs : RestoreCookiesRead(arg)
    \/ RestoreCookiesWrite
    \/ \E x \in ProxyIds : AddProxy(x)
    \/ \E x \in ProxyIds : DeleteProxy(x)

Spec == Init /\ [][Next]_vars

\* ---- the periodic job alone: runs of parse_all_articles one after another
PeriodicNext ==
    \/ Tick
    \/ ParseArticle("periodic")
    \/ LoadResults("periodic")
    \/ SaveResults("periodic")
    \/ Sleep("periodic")
    \/ UpdateAnalytics("periodic")
    \/ LoadAnalytics("periodic")
    \/ SaveAnalytics("periodic")
    \/ JobEnd

\* The periodic job, and the requests that add an article before, during
\* and between its runs.
SeqNext ==
    \/ PeriodicNext
    \/ \E p \in ArticleIdSet : AddArticle(p)

SeqSpec == Init /\ [][SeqNext]_vars

\* ---- the periodic job with accounts bound to a proxy, and proxies deleted

\* a1 is bound to proxy x1, a2 to none.
ProxyScenarios ==
    {Scenario(<<"p1">>, <<WithProxy(Account("a1", TRUE), "x1"),
                          Account("a2", TRUE)>>, {}, NoBackup),
     Scenario(<<"p1", "p2">>, <<WithProxy(Account("a1", TRUE), "x1")>>, {},
              NoBackup)}

ProxyInit ==
    /\ \E sc \in ProxyScenarios :
         /\ articles_file = sc.articles
         /\ accounts_file = sc.accounts
         /\ results_file = sc.results
         /\ analytics_file = AnalyticsOfStore(sc.results)
    /\ proxies_file = ProxyIds
    /\ cookies_backup = NoBackup
    /\ restore = NoRestore
    /\ run = [r \in RunIds |-> IdleRun]
    /\ parse_now_resp = [d \in DemandIds |-> NoneVal]
    /\ produced = [pr \in Pairs |-> 0]
    /\ starts = 0
    /\ faults = 0
    /\ edits = 0
    /\ NoSessions
    /\ NoCall

ProxyNext ==
    \/ PeriodicNext
    \/ \E x \in ProxyIds : DeleteProxy(x)

ProxySpec == ProxyInit /\ [][ProxyNext]_vars


\* ======================================================== login sessions
\* AuthSession.send_message (ws_manager.py:44-59): the event reaches the
\* channel while the client is connected; otherwise send_json raises and the
\* exception is logged.
Event(t, d) == [type |-> t, data |-> d]
\* send_message that sends no error event.
SendDropsErrors(s, ev) ==
    IF handler[s] = "receiving" /\ ev.type # "error"
    THEN Append(outbox[s], ev) ELSE outbox[s]

Send(s, ev) ==
    IF handler[s] \in {"receiving", "stopped"} THEN Append(outbox[s], ev)
    ELSE outbox[s]

\* AuthSession.set_code (ws_manager.py:78-87)
SetCode(session, code) == [session EXCEPT !.code = Some(code), !.code_event = TRUE]

\* wait_for_code without its return statement after the wait.
WaitForCodeReturnsNothing(session) == NoneVal

\* AuthSession.wait_for_code, the return after the event (ws_manager.py:73)
WaitForCodeReturn(session) == session.code

\* remove_session emptying the registry.
RemoveSessionClearsAll(registry, id) == {}

\* WebSocketManager.remove_session (ws_manager.py:135-144): the entry is
\* deleted if the id is registered.
RemoveSession(registry, id) == IF id \in registry THEN registry \ {id} ELSE registry

\* The status emitted after a given one (wb_auth.py:152-343).
NextStatus(step) ==
    CASE step = "started" -> "page_loaded"
      [] step = "page_loaded" -> "entering_phone"
      [] step = "entering_phone" -> "code_requested"
      [] step = "code_requested" -> "waiting_for_code"
      [] step = "entering_code" -> "verifying"
      [] step = "verifying" -> "success"

\* Positions of the login flow at which browser automation runs next.
AutomationSteps == {"started", "page_loaded", "entering_phone", "code_requested",
                    "entering_code", "verifying"}

AuthInit ==
    /\ articles_file = <<>>
    /\ accounts_file = <<>>
    /\ results_file = {}
    /\ analytics_file = {}
    /\ proxies_file = {}
    /\ cookies_backup = NoBackup
    /\ restore = NoRestore
    /\ run = [r \in RunIds |-> IdleRun]
    /\ parse_now_resp = [d \in DemandIds |-> NoneVal]
    /\ produced = [pr \in Pairs |-> 0]
    /\ starts = 0
    /\ faults = 0
    /\ edits = 0
    /\ NoSessions
    /\ NoCall

\* POST /accounts/add_account (accounts.py:44-66): a fresh session id is put
\* in the pending-session table.
AddAccountRequest(s) ==
    /\ handler[s] = "none"
    /\ s \notin temp_sessions
    /\ temp_sessions' = temp_sessions \cup {s}
    /\ UNCHANGED <<scrapeVars, opVars, accounts_file, active_sessions, handler, sess,
                   flow, wait_ret, outbox, handled>>

\* websocket_auth, the pending-session check (ws_routes.py:40-52).
Connect(s) ==
    /\ handler[s] = "none"
    /\ handler' = [handler EXCEPT ![s] =
                     IF s \in temp_sessions THEN "accepting" ELSE "rejected"]
    /\ UNCHANGED <<scrapeVars, opVars, accounts_file, temp_sessions, active_sessions,
                   sess, flow, wait_ret, outbox, handled>>

\* websocket_auth after accept (ws_routes.py:55-67): the AuthSession is
\* created and registered, the pending entry deleted, the task created.
CreateSession(s) ==
    /\ handler[s] = "accepting"
    /\ active_sessions' = active_sessions \cup {SessionUuid(s)}
    /\ sess' = [sess EXCEPT ![s] = NewSession]
    /\ temp_sessions' = temp_sessions \ {s}
    /\ flow' = [flow EXCEPT ![s] = "new"]
    /\ handler' = [handler EXCEPT ![s] = "receiving"]
    /\ UNCHANGED <<scrapeVars, opVars, accounts_file, wait_ret, outbox, handled>>

\* A receive loop that answers a message of unknown type with an error.
ReceiveAnswersUnknown(s, m) ==
    /\ handler[s] = "receiving"
    /\ Len(handled[s]) < MaxMsgs
    /\ handled' = [handled EXCEPT ![s] = Append(@, m)]
    /\ sess' = [sess EXCEPT ![s] =
                  IF m.type = "submit_code" /\ Strip(m.code) # ""
                  THEN SetCode(@, Strip(m.code)) ELSE @]
    /\ outbox' = [outbox EXCEPT ![s] =
                  IF m.type = "submit_code" /\ Strip(m.code) = ""
                  THEN Send(s, Event("error", "empty_code"))
                  ELSE IF m.type = "ping" THEN Send(s, Event("pong", ""))
                  ELSE IF m.type = "submit_code" THEN @
                  ELSE Send(s, Event("error", "unknown_type"))]
    /\ UNCHANGED <<scrapeVars, opVars, accounts_file, temp_sessions, active_sessions,
                   handler, flow, wait_ret>>

\* A receive loop that takes no turn while the login flow waits for the code.
ReceiveBlockedWhileWaiting(s, m) ==
    /\ handler[s] = "receiving"
    /\ flow[s] # "in_wait"
    /\ Len(handled[s]) < MaxMsgs
    /\ handled' = [handled EXCEPT ![s] = Append(@, m)]
    /\ sess' = [sess EXCEPT ![s] =
                  IF m.type = "submit_code" /\ Strip(m.code) # ""
                  THEN SetCode(@, Strip(m.code)) ELSE @]
    /\ outbox' = [outbox EXCEPT ![s] =
                  IF m.type = "submit_code" /\ Strip(m.code) = ""
                  THEN Send(s, Event("error", "empty_code"))
                  ELSE IF m.type = "ping" THEN Send(s, Event("pong", ""))
                  ELSE @]
    /\ UNCHANGED <<scrapeVars, opVars, accounts_file, temp_sessions, active_sessions,
                   handler, flow, wait_ret>>

\* A receive loop whose set_code reaches every session, as with a code and
\* an event kept on the class instead of the instance.
ReceiveSetsEverySession(s, m) ==
    /\ handler[s] = "receiving"
    /\ Len(handled[s]) < MaxMsgs
    /\ handled' = [handled EXCEPT ![s] = Append(@, m)]
    /\ sess' = IF m.type = "submit_code" /\ Strip(m.code) # ""
               THEN [t \in DOMAIN sess |-> SetCode(sess[t], Strip(m.code))]
               ELSE sess
    /\ outbox' = [outbox EXCEPT ![s] =
                  IF m.type = "submit_code" /\ Strip(m.code) = ""
                  THEN Send(s, Event("error", "empty_code"))
                  ELSE IF m.type = "ping" THEN Send(s, Event("pong", ""))
                  ELSE @]
    /\ UNCHANGED <<scrapeVars, opVars, accounts_file, temp_sessions, active_sessions,
                   handler, flow, wait_ret>>

\* One turn of the receive loop (ws_routes.py:70-86).
Receive(s, m) ==
    /\ handler[s] = "receiving"
    /\ Len(handled[s]) < MaxMsgs
    /\ handled' = [handled EXCEPT ![s] = Append(@, m)]
    /\ sess' = [sess EXCEPT ![s] =
                  IF m.type = "submit_code" /\ Strip(m.code) # ""
                  THEN SetCode(@, Strip(m.code)) ELSE @]
    /\ outbox' = [outbox EXCEPT ![s] =
                  IF m.type = "submit_code" /\ Strip(m.code) = ""
                  THEN Send(s, Event("error", "empty_code"))
                  ELSE IF m.type = "ping" THEN Send(s, Event("pong", ""))
                  ELSE @]
    /\ UNCHANGED <<scrapeVars, opVars, accounts_file, temp_sessions, active_sessions,
                   handler, flow, wait_ret>>

\* The client disconnects: receive_json raises WebSocketDisconnect, the
\* loop breaks and the handler awaits the task (ws_routes.py:88-98).
Disconnect(s) ==
    /\ handler[s] = "receiving"
    /\ handler' = [handler EXCEPT ![s] = "joining"]
    /\ UNCHANGED <<scrapeVars, opVars, accounts_file, temp_sessions, active_sessions,
                   sess, flow, wait_ret, outbox, handled>>

\* get_session returning whichever session is registered.
GetSessionAny(registry, id) ==
    IF registry # {} THEN Some(CHOOSE x \in registry : TRUE) ELSE NoneVal

\* WebSocketManager.get_session (ws_manager.py:123-133): dict.get, None for
\* an id that is not registered; the session found is the one of that id.
GetSession(registry, id) == IF id \in registry THEN Some(id) ELSE NoneVal

\* The task has ended: finally close_session, up to its await
\* (ws_routes.py:95-101, ws_manager.py:153-156): the session is looked up
\* and, if found, its websocket closed.
CloseSession(s) ==
    /\ handler[s] \in {"joining", "stopped"}
    /\ flow[s] \in {"failed", "completed"}
    /\ handler' = [handler EXCEPT ![s] =
                     IF GetSession(active_sessions, SessionUuid(s)) # NoneVal
                     THEN "closing" ELSE "closed"]
    /\ UNCHANGED <<scrapeVars, opVars, accounts_file, temp_sessions,
                   active_sessions, sess, flow, wait_ret, outbox, handled>>

\* close_session after websocket.close() returned or raised
\* (ws_manager.py:157-159): remove_session.
CloseSessionRemove(s) ==
    /\ handler[s] = "closing"
    /\ active_sessions' = RemoveSession(active_sessions, SessionUuid(s))
    /\ handler' = [handler EXCEPT ![s] = "closed"]
    /\ UNCHANGED <<scrapeVars, opVars, accounts_file, temp_sessions, sess, flow,
                   wait_ret, outbox, handled>>

\* _run_auth: the Account is created and stored (ws_routes.py:106-118,
\* storage.py:80-106).
RunAuthAddAccount(s) ==
    /\ flow[s] = "new"
    /\ \E o \in AddAccountOutcomes :
         LET ok == AddAccountResult(o)
         IN /\ accounts_file' =
                  AddAccountFile(accounts_file, Account(AccountUuid(s), FALSE), o)
            /\ outbox' = [outbox EXCEPT ![s] =
                            IF ok THEN Send(s, Event("account_created", AccountUuid(s)))
                            ELSE Send(s, Event("error", "save_account"))]
            /\ flow' = [flow EXCEPT ![s] = IF ok THEN "account_created" ELSE "failed"]
    /\ UNCHANGED <<scrapeVars, opVars, temp_sessions, active_sessions, handler, sess,
                   wait_ret, handled>>

\* login_and_get_cookies_with_ws: _start_browser, outside the try block,
\* then the first status (wb_auth.py:147-155); an exception of
\* _start_browser reaches the handler of _run_auth (ws_routes.py:138-140).
StartBrowser(s) ==
    /\ flow[s] = "account_created"
    /\ \E ok \in BOOLEAN :
         /\ outbox' = [outbox EXCEPT ![s] =
                         IF ok THEN Send(s, Event("status", "started"))
                         ELSE Send(s, Event("error", "exception"))]
         /\ flow' = [flow EXCEPT ![s] = IF ok THEN "started" ELSE "failed"]
    /\ UNCHANGED <<scrapeVars, opVars, accounts_file, temp_sessions, active_sessions,
                   handler, sess, wait_ret, handled>>

\* The automation up to the next status succeeds (wb_auth.py:157-343).
FlowAdvance(s) ==
    /\ flow[s] \in AutomationSteps
    /\ outbox' = [outbox EXCEPT ![s] = Send(s, Event("status", NextStatus(flow[s])))]
    /\ flow' = [flow EXCEPT ![s] = NextStatus(@)]
    /\ UNCHANGED <<scrapeVars, opVars, accounts_file, temp_sessions, active_sessions,
                   handler, sess, wait_ret, handled>>

\* The automation raises inside the try block: the error event is sent and
\* None returned (wb_auth.py:347-357).
LoginFail(s) ==
    /\ flow[s] \in AutomationSteps
    /\ outbox' = [outbox EXCEPT ![s] = Send(s, Event("error", "login"))]
    /\ flow' = [flow EXCEPT ![s] = "login_failed"]
    /\ UNCHANGED <<scrapeVars, opVars, accounts_file, temp_sessions, active_sessions,
                   handler, sess, wait_ret, handled>>

\* code = await auth_session.wait_for_code(timeout=300): the flow suspends
\* in asyncio.wait_for(self.code_event.wait(), ...) (wb_auth.py:295,
\* ws_manager.py:72).
EnterWait(s) ==
    /\ flow[s] = "waiting_for_code"
    /\ flow' = [flow EXCEPT ![s] = "in_wait"]
    /\ UNCHANGED <<scrapeVars, opVars, accounts_file, temp_sessions, active_sessions,
                   handler, sess, wait_ret, outbox, handled>>

\* The event is set: wait_for returns and wait_for_code returns self.code
\* (ws_manager.py:72-73).
WaitReturn(s) ==
    /\ flow[s] = "in_wait"
    /\ sess[s].code_event
    /\ wait_ret' = [wait_ret EXCEPT ![s] = WaitForCodeReturn(sess[s])]
    /\ flow' = [flow EXCEPT ![s] = "after_wait"]
    /\ UNCHANGED <<scrapeVars, opVars, accounts_file, temp_sessions, active_sessions,
                   handler, sess, outbox, handled>>

\* The timeout elapses with the event unset: the timer of asyncio.wait_for
\* fires and wait_for starts cancelling the wait on the event
\* (ws_manager.py:72).  With the event set before the timer fires, the wait
\* has completed and wait_for returns its result.
TimerFires(s) ==
    /\ flow[s] = "in_wait"
    /\ ~sess[s].code_event
    /\ flow' = [flow EXCEPT ![s] = "timing_out"]
    /\ UNCHANGED <<scrapeVars, opVars, accounts_file, temp_sessions, active_sessions,
                   handler, sess, wait_ret, outbox, handled>>

\* Some turns of the event loop after the timer fired the wait is cancelled:
\* asyncio.TimeoutError, wait_for_code returns None (ws_manager.py:74-76),
\* also when set_code has stored a code and set the event in between.
WaitTimeout(s) ==
    /\ flow[s] = "timing_out"
    /\ wait_ret' = [wait_ret EXCEPT ![s] = NoneVal]
    /\ flow' = [flow EXCEPT ![s] = "after_wait"]
    /\ UNCHANGED <<scrapeVars, opVars, accounts_file, temp_sessions, active_sessions,
                   handler, sess, outbox, handled>>

\* if not code: raise Exception(...), caught at wb_auth.py:347; else the
\* "entering_code" status (wb_auth.py:297-304).
AfterWait(s) ==
    /\ flow[s] = "after_wait"
    /\ outbox' = [outbox EXCEPT ![s] =
                    IF wait_ret[s] = NoneVal THEN Send(s, Event("error", "login"))
                    ELSE Send(s, Event("status", "entering_code"))]
    /\ flow' = [flow EXCEPT ![s] =
                    IF wait_ret[s] = NoneVal THEN "login_failed" ELSE "entering_code"]
    /\ UNCHANGED <<scrapeVars, opVars, accounts_file, temp_sessions, active_sessions,
                   handler, sess, wait_ret, handled>>

\* _run_auth with cookies None (ws_routes.py:133-136).
NoCookies(s) ==
    /\ flow[s] = "login_failed"
    /\ outbox' = [outbox EXCEPT ![s] = Send(s, Event("error", "no_cookies"))]
    /\ flow' = [flow EXCEPT ![s] = "failed"]
    /\ UNCHANGED <<scrapeVars, opVars, accounts_file, temp_sessions, active_sessions,
                   handler, sess, wait_ret, handled>>

\* _run_auth with cookies: update_cookies, whose result is not looked at,
\* then the completed event (ws_routes.py:127-132).  update_cookies
\* (storage.py:150-196) returns False for an account it does not find in
\* the dict it loaded ({} for a file that cannot be read); else it backs the
\* cookies up and saves the account.
Completed(s) ==
    /\ flow[s] = "success"
    /\ \E read \in BOOLEAN, saved \in BOOLEAN, b \in WriteOutcomes :
         LET found == read /\ Known(accounts_file, AccountUuid(s))
         IN /\ accounts_file' =
                  UpdateCookies(accounts_file, AccountUuid(s), found /\ saved)
            /\ cookies_backup' =
                  IF found THEN BackupCookies(cookies_backup, AccountUuid(s), b)
                  ELSE cookies_backup
    /\ outbox' = [outbox EXCEPT ![s] = Send(s, Event("completed", AccountUuid(s)))]
    /\ flow' = [flow EXCEPT ![s] = "completed"]
    /\ UNCHANGED <<articles_file, results_file, analytics_file, proxies_file,
                   restore, run, parse_now_resp, produced, starts, faults, edits,
                   opVars, temp_sessions, active_sessions, handler, sess,
                   wait_ret, handled>>

\* driver.quit() raises in the finally of login_and_get_cookies_with_ws
\* (wb_auth.py:359-360), after the status "success" or after the error event
\* of the except branch: the exception replaces the value being returned and
\* reaches the handler of _run_auth (ws_routes.py:138-140), which sends an
\* error event; update_cookies is not called and completed is not sent.
QuitRaises(s) ==
    /\ flow[s] \in {"success", "login_failed"}
    /\ outbox' = [outbox EXCEPT ![s] = Send(s, Event("error", "exception"))]
    /\ flow' = [flow EXCEPT ![s] = "failed"]
    /\ UNCHANGED <<scrapeVars, opVars, accounts_file, temp_sessions, active_sessions,
                   handler, sess, wait_ret, handled>>

AuthNext ==
    \/ \E s \in SessionIds : AddAccountRequest(s)
    \/ \E s \in SessionIds : Connect(s)
    \/ \E s \in SessionIds : CreateSession(s)
    \/ \E s \in SessionIds : \E m \in InboundMsgs : Receive(s, m)
    \/ \E s \in SessionIds : Disconnect(s)
    \/ \E s \in SessionIds : CloseSession(s)
    \/ \E s \in SessionIds : CloseSessionRemove(s)
    \/ \E s \in SessionIds : RunAuthAddAccount(s)
    \/ \E s \in SessionIds : StartBrowser(s)
    \/ \E s \in SessionIds : FlowAdvance(s)
    \/ \E s \in SessionIds : LoginFail(s)
    \/ \E s \in SessionIds : EnterWait(s)
    \/ \E s \in SessionIds : WaitReturn(s)
    \/ \E s \in SessionIds : TimerFires(s)
    \/ \E s \in SessionIds : WaitTimeout(s)
    \/ \E s \in SessionIds : AfterWait(s)
    \/ \E s \in SessionIds : NoCookies(s)
    \/ \E s \in SessionIds : Completed(s)
    \/ \E s \in SessionIds : QuitRaises(s)
    \/ \E arg \in RestoreArgs : RestoreCookiesRead(arg)
    \/ RestoreCookiesWrite

AuthSpec == AuthInit /\ [][AuthNext]_vars

\* The steps the server takes by itself: the handler after accept and after
\* the receive loop, and the _run_auth task, which the event loop keeps
\* running; the timeout of wait_for is one of them.  What the client does
\* (requesting, connecting, sending, disconnecting) is not.
ServerStep(s) ==
    \/ CreateSession(s)
    \/ CloseSession(s)
    \/ CloseSessionRemove(s)
    \/ RunAuthAddAccount(s)
    \/ StartBrowser(s)
    \/ FlowAdvance(s)
    \/ LoginFail(s)
    \/ EnterWait(s)
    \/ WaitReturn(s)
    \/ TimerFires(s)
    \/ WaitTimeout(s)
    \/ AfterWait(s)
    \/ NoCookies(s)
    \/ Completed(s)
    \/ QuitRaises(s)

AuthLiveSpec == AuthSpec /\ \A s \in SessionIds : WF_vars(ServerStep(s))

\* ---- a client that also sends malformed messages
\* A turn of the receive loop on a message that is not a JSON object, or a
\* submit_code whose code is not a string (ws_routes.py:72-76, 91-93):
\* receive_json, data.get or .strip() raises, except Exception logs it and
\* breaks the loop; the handler goes on to await the task ("stopped") with
\* its channel still connected.
ReceiveMalformed(s) ==
    /\ handler[s] = "receiving"
    /\ Len(handled[s]) < MaxMsgs
    /\ handled' = [handled EXCEPT ![s] = Append(@, Msg("malformed", ""))]
    /\ handler' = [handler EXCEPT ![s] = "stopped"]
    /\ UNCHANGED <<scrapeVars, opVars, accounts_file, temp_sessions, active_sessions,
                   sess, flow, wait_ret, outbox>>

\* The client disconnects while the handler awaits the task.
DisconnectStopped(s) ==
    /\ handler[s] = "stopped"
    /\ handler' = [handler EXCEPT ![s] = "joining"]
    /\ UNCHANGED <<scrapeVars, opVars, accounts_file, temp_sessions, active_sessions,
                   sess, flow, wait_ret, outbox, handled>>

MalformedNext ==
    \/ AuthNext
    \/ \E s \in SessionIds : ReceiveMalformed(s)
    \/ \E s \in SessionIds : DisconnectStopped(s)

MalformedSpec == AuthInit /\ [][MalformedNext]_vars

\* ---- two channels attaching with the one session id that was issued
\* The session id add_account issued; the two connections that present it
\* are named as the handlers of TwoSessionIds.
IssuedId == "s1"

AttachInit ==
    /\ articles_file = <<>>
    /\ accounts_file = <<>>
    /\ results_file = {}
    /\ analytics_file = {}
    /\ proxies_file = {}
    /\ cookies_backup = NoBackup
    /\ restore = NoRestore
    /\ run = [r \in RunIds |-> IdleRun]
    /\ parse_now_resp = [d \in DemandIds |-> NoneVal]
    /\ produced = [pr \in Pairs |-> 0]
    /\ starts = 0
    /\ faults = 0
    /\ edits = 0
    /\ NoSessionsOf(TwoSessionIds)
    /\ NoCall

\* POST /accounts/add_account, once (accounts.py:44-66).
AttachAddAccount ==
    /\ \A ch \in TwoSessionIds : handler[ch] = "none"
    /\ IssuedId \notin temp_sessions
    /\ temp_sessions' = temp_sessions \cup {IssuedId}
    /\ UNCHANGED <<scrapeVars, opVars, accounts_file, active_sessions, handler, sess,
                   flow, wait_ret, outbox, handled>>

\* websocket_auth of a connection up to await websocket.accept()
\* (ws_routes.py:40-52): closed with 1008 when the id is not pending.
AttachConnect(ch) ==
    /\ handler[ch] = "none"
    /\ handler' = [handler EXCEPT ![ch] =
                     IF IssuedId \in temp_sessions THEN "accepting" ELSE "rejected"]
    /\ UNCHANGED <<scrapeVars, opVars, accounts_file, temp_sessions, active_sessions,
                   sess, flow, wait_ret, outbox, handled>>

\* websocket_auth after accept() returned (ws_routes.py:55-67):
\* create_session registers a new AuthSession, then the pending entry is
\* deleted; del raises KeyError when it is gone, before the try block, and
\* the handler ends there ("key_error") with no task created.
AttachCreateSession(ch) ==
    /\ handler[ch] = "accepting"
    /\ active_sessions' = active_sessions \cup {SessionUuid(ch)}
    /\ sess' = [sess EXCEPT ![ch] = NewSession]
    /\ temp_sessions' = temp_sessions \ {IssuedId}
    /\ flow' = [flow EXCEPT ![ch] = IF IssuedId \in temp_sessions THEN "new" ELSE @]
    /\ handler' = [handler EXCEPT ![ch] =
                     IF IssuedId \in temp_sessions THEN "receiving" ELSE "key_error"]
    /\ UNCHANGED <<scrapeVars, opVars, accounts_file, wait_ret, outbox, handled>>

AttachNext ==
    \/ AttachAddAccount
    \/ \E ch \in TwoSessionIds : AttachConnect(ch)
    \/ \E ch \in TwoSessionIds : AttachCreateSession(ch)
    \/ \E ch \in TwoSessionIds : Disconnect(ch)
    \/ \E ch \in TwoSessionIds : CloseSession(ch)
    \/ \E ch \in TwoSessionIds : CloseSessionRemove(ch)
    \/ \E ch \in TwoSessionIds : RunAuthAddAccount(ch)
    \/ \E ch \in TwoSessionIds : StartBrowser(ch)
    \/ \E ch \in TwoSessionIds : LoginFail(ch)
    \/ \E ch \in TwoSessionIds : NoCookies(ch)
    \/ \E ch \in TwoSessionIds : QuitRaises(ch)

AttachSpec == AttachInit /\ [][AttachNext]_vars

\* ---- two login flows waiting for their codes at the same time, followed
\* until the code is about to be entered or the flow has failed
\* What a channel has been sent when its flow calls wait_for_code
\* (ws_routes.py:116, wb_auth.py:152-291).
OutboxAtWait(s) ==
    <<Event("account_created", AccountUuid(s))>> \o
    [k \in 1..5 |-> Event("status", StatusSteps[k])]

\* Both clients have attached and both flows are suspended in wait_for_code.
IsolationInit ==
    /\ articles_file = <<>>
    /\ accounts_file = <<Account(AccountUuid("s1"), FALSE),
                         Account(AccountUuid("s2"), FALSE)>>
    /\ results_file = {}
    /\ analytics_file = {}
    /\ proxies_file = {}
    /\ cookies_backup = NoBackup
    /\ restore = NoRestore
    /\ run = [r \in RunIds |-> IdleRun]
    /\ parse_now_resp = [d \in DemandIds |-> NoneVal]
    /\ produced = [pr \in Pairs |-> 0]
    /\ starts = 0
    /\ faults = 0
    /\ edits = 0
    /\ temp_sessions = {}
    /\ active_sessions = {SessionUuid(s) : s \in TwoSessionIds}
    /\ handler = [s \in TwoSessionIds |-> "receiving"]
    /\ sess = [s \in TwoSessionIds |-> NewSession]
    /\ flow = [s \in TwoSessionIds |-> "in_wait"]
    /\ wait_ret = [s \in TwoSessionIds |-> NoneVal]
    /\ outbox = [s \in TwoSessionIds |-> OutboxAtWait(s)]
    /\ handled = [s \in TwoSessionIds |-> <<>>]
    /\ NoCall

\* What the two clients send: either code, or a ping.
IsolationMsgs == {Msg("submit_code", "1111"), Msg("submit_code", "2222"),
                  Msg("ping", "")}

IsolationNext ==
    \/ \E s \in TwoSessionIds : \E m \in IsolationMsgs : Receive(s, m)
    \/ \E s \in TwoSessionIds : WaitReturn(s)
    \/ \E s \in TwoSessionIds : TimerFires(s)
    \/ \E s \in TwoSessionIds : WaitTimeout(s)
    \/ \E s \in TwoSessionIds : AfterWait(s)
    \/ \E s \in TwoSessionIds : LoginFail(s)
    \/ \E s \in TwoSessionIds : NoCookies(s)
    \/ \E s \in TwoSessionIds : QuitRaises(s)

IsolationSpec == IsolationInit /\ [][IsolationNext]_vars

\* ---- two login attempts at once, their clients sending nothing
RegistryInit ==
    /\ articles_file = <<>>
    /\ accounts_file = <<>>
    /\ results_file = {}
    /\ analytics_file = {}
    /\ proxies_file = {}
    /\ cookies_backup = NoBackup
    /\ restore = NoRestore
    /\ run = [r \in RunIds |-> IdleRun]
    /\ parse_now_resp = [d \in DemandIds |-> NoneVal]
    /\ produced = [pr \in Pairs |-> 0]
    /\ starts = 0
    /\ faults = 0
    /\ edits = 0
    /\ NoSessionsOf(TwoSessionIds)
    /\ NoCall

RegistryNext ==
    \/ \E s \in TwoSessionIds : AddAccountRequest(s)
    \/ \E s \in TwoSessionIds : Connect(s)
    \/ \E s \in TwoSessionIds : CreateSession(s)
    \/ \E s \in TwoSessionIds : Disconnect(s)
    \/ \E s \in TwoSessionIds : CloseSession(s)
    \/ \E s \in TwoSessionIds : CloseSessionRemove(s)
    \/ \E s \in TwoSessionIds : RunAuthAddAccount(s)
    \/ \E s \in TwoSessionIds : StartBrowser(s)
    \/ \E s \in TwoSessionIds : FlowAdvance(s)
    \/ \E s \in TwoSessionIds : LoginFail(s)
    \/ \E s \in TwoSessionIds : EnterWait(s)
    \/ \E s \in TwoSessionIds : TimerFires(s)
    \/ \E s \in TwoSessionIds : WaitTimeout(s)
    \/ \E s \in TwoSessionIds : AfterWait(s)
    \/ \E s \in TwoSessionIds : NoCookies(s)
    \/ \E s \in TwoSessionIds : QuitRaises(s)

RegistrySpec == RegistryInit /\ [][RegistryNext]_vars

\* ---- calls on the session registry
\* ids a caller may pass: ids of sessions that were created, "s0" never was
RegistryUuids == {SessionUuid(s) : s \in {"s1", "s2", "s3", "s4"}}
CallUuids == RegistryUuids \cup {SessionUuid("s0")}
RegistryOps == {"get_session", "remove_session", "close_session"}

\* The coroutines that call the registry at one time.
Callers == {"c1", "c2"}

\* A call that returned value v without raising.
Returned(v) == [raised |-> FALSE, value |-> v]

\* del self.active_sessions[session_id] (ws_manager.py:143) raises KeyError
\* for a key that is not in the dict.
DelRaises(registry, id) == id \notin registry

\* remove_session as a call (ws_manager.py:135-144): the del runs under
\* "if session_id in self.active_sessions"; the call raises when the del
\* does, and returns None.
RemoveSessionResult(registry, id) ==
    [raised |-> id \in registry /\ DelRaises(registry, id), value |-> NoneVal]

\* get_session as a call (ws_manager.py:123-133): dict.get does not raise.
GetSessionResult(registry, id) ==
    [raised |-> FALSE, value |-> GetSession(registry, id)]

\* The registry holds any of the sessions created so far; no call is being
\* made.
RegistryOpsInit ==
    /\ articles_file = <<>>
    /\ accounts_file = <<>>
    /\ results_file = {}
    /\ analytics_file = {}
    /\ proxies_file = {}
    /\ cookies_backup = NoBackup
    /\ restore = NoRestore
    /\ run = [r \in RunIds |-> IdleRun]
    /\ parse_now_resp = [d \in DemandIds |-> NoneVal]
    /\ produced = [pr \in Pairs |-> 0]
    /\ starts = 0
    /\ faults = 0
    /\ edits = 0
    /\ temp_sessions = {}
    /\ active_sessions \in SUBSET RegistryUuids
    /\ handler = [s \in SessionIds |-> "none"]
    /\ sess = [s \in SessionIds |-> NewSession]
    /\ flow = [s \in SessionIds |-> "none"]
    /\ wait_ret = [s \in SessionIds |-> NoneVal]
    /\ outbox = [s \in SessionIds |-> <<>>]
    /\ handled = [s \in SessionIds |-> <<>>]
    /\ op_arg = [c \in Callers |-> NoneVal]
    /\ op_ret = [c \in Callers |-> NoneVal]

\* The call a caller makes, and the registry it is made on: op_arg keeps
\* the last call of every caller, op_ret what it returned.
RegistryCallOf(op, id, registry) == [op |-> op, id |-> id, before |-> registry]

\* The caller is inside close_session, suspended in
\* await session.websocket.close() (ws_manager.py:155-156).
InCloseSession(c) == op_arg[c] # NoneVal /\ op_ret[c] = NoneVal

\* ws_manager.get_session(id) called by c.
GetSessionCall(c, id) ==
    /\ ~InCloseSession(c)
    /\ op_arg' = [op_arg EXCEPT ![c] =
                    Some(RegistryCallOf("get_session", id, active_sessions))]
    /\ op_ret' = [op_ret EXCEPT ![c] = Some(GetSessionResult(active_sessions, id))]
    /\ UNCHANGED <<scrapeVars, accounts_file, authVars>>

\* ws_manager.remove_session(id) called by c: it has no await, no other
\* coroutine runs inside it.
RemoveSessionCall(c, id) ==
    /\ ~InCloseSession(c)
    /\ op_arg' = [op_arg EXCEPT ![c] =
                    Some(RegistryCallOf("remove_session", id, active_sessions))]
    /\ active_sessions' = RemoveSession(active_sessions, id)
    /\ op_ret' = [op_ret EXCEPT ![c] = Some(RemoveSessionResult(active_sessions, id))]
    /\ UNCHANGED <<scrapeVars, accounts_file, temp_sessions, handler, sess,
                   flow, wait_ret, outbox, handled>>

\* ws_manager.close_session(id) called by c, up to its await
\* (ws_manager.py:153-156): it returns None at once when get_session finds
\* no session, else it is suspended in websocket.close().
CloseSessionBegin(c, id) ==
    /\ ~InCloseSession(c)
    /\ op_arg' = [op_arg EXCEPT ![c] =
                    Some(RegistryCallOf("close_session", id, active_sessions))]
    /\ op_ret' = [op_ret EXCEPT ![c] =
                    IF GetSession(active_sessions, id) = NoneVal
                    THEN Some(Returned(NoneVal)) ELSE NoneVal]
    /\ UNCHANGED <<scrapeVars, accounts_file, authVars>>

\* close_session resumed (ws_manager.py:155-159): websocket.close() has
\* returned or raised (the bare except passes either way), then
\* remove_session on the registry as it is now.
CloseSessionEnd(c) ==
    /\ InCloseSession(c)
    /\ active_sessions' = RemoveSession(active_sessions, op_arg[c][1].id)
    /\ op_ret' = [op_ret EXCEPT ![c] =
                    Some(RemoveSessionResult(active_sessions, op_arg[c][1].id))]
    /\ UNCHANGED <<scrapeVars, accounts_file, temp_sessions, handler, sess,
                   flow, wait_ret, outbox, handled, op_arg>>

RegistryOpsNext ==
    \/ \E c \in Callers : \E id \in CallUuids : GetSessionCall(c, id)
    \/ \E c \in Callers : \E id \in CallUuids : RemoveSessionCall(c, id)
    \/ \E c \in Callers : \E id \in CallUuids : CloseSessionBegin(c, id)
    \/ \E c \in Callers : CloseSessionEnd(c)

RegistryOpsSpec == RegistryOpsInit /\ [][RegistryOpsNext]_vars

\* ---- single calls of AccountStorage.update_account and delete_account
\* The account files a call is made on: a1 with or without cookies and
\* proxy, alone or followed by a2.
AccountFiles ==
    LET firsts == {Account("a1", c) : c \in BOOLEAN} \cup
                  {WithProxy(Account("a1", c), "x1") : c \in BOOLEAN}
    IN  {<<a>> : a \in firsts} \cup
        {<<a, WithProxy(Account("a2", TRUE), "x2")>> : a \in firsts}

AccountsInit ==
    /\ articles_file = <<>>
    /\ accounts_file \in AccountFiles
    /\ results_file = {}
    /\ analytics_file = {}
    /\ proxies_file = {"x1", "x2"}
    /\ cookies_backup = NoBackup
    /\ restore = NoRestore
    /\ run = [r \in RunIds |-> IdleRun]
    /\ parse_now_resp = [d \in DemandIds |-> NoneVal]
    /\ produced = [pr \in Pairs |-> 0]
    /\ starts = 0
    /\ faults = 0
    /\ edits = 0
    /\ NoSessions
    /\ op_arg \in {Some([op |-> "update", args |-> a, before |-> accounts_file]) :
                       a \in UpdateArgs}
                  \cup
                  {Some([op |-> "delete", args |-> a, before |-> accounts_file]) :
                       a \in DeleteArgs}
    /\ op_ret = NoneVal

UpdateAccountCall ==
    /\ op_ret = NoneVal
    /\ op_arg[1].op = "update"
    /\ accounts_file' = UpdateAccountFile(accounts_file, op_arg[1].args)
    /\ op_ret' = Some(Returned(UpdateAccountResult(accounts_file, op_arg[1].args)))
    /\ UNCHANGED <<scrapeVars, authVars, op_arg>>

DeleteAccountCall ==
    /\ op_ret = NoneVal
    /\ op_arg[1].op = "delete"
    /\ LET args == op_arg[1].args
       IN /\ accounts_file' =
                DeleteAccountFile(accounts_file, args.account_uuid, args.saved)
          /\ op_ret' = Some(Returned(
                DeleteAccountResult(accounts_file, args.account_uuid, args.saved)))
    /\ UNCHANGED <<scrapeVars, authVars, op_arg>>

AccountsNext == UpdateAccountCall \/ DeleteAccountCall

AccountsSpec == AccountsInit /\ [][AccountsNext]_vars

\* ---- single calls of update_analytics
\* spp values in hundredths (43.93, 47.34, 49.99, 53.76) and dest values
SppValues == {4393, 4734, 4999, 5376}
DestValues == {"-1257786", "123585"}
SampleValue(spp, dest) == [spp |-> spp, dest |-> dest]
SampleValues == {SampleValue(x, d) : x \in SppValues, d \in DestValues}

\* The results get_parsing_results returns for the article, in the order of
\* the accounts in the results file (article_storage.py:116-141).
ResultLists == UNION {[1..n -> SampleValues] : n \in 0..MaxSamples}

\* Counter(xs).most_common(1)[0][0]: the value counted most often, the one
\* met first among those counted equally often.
Count(xs, x) == Cardinality({k \in 1..Len(xs) : xs[k] = x})
FirstIndex(xs, x) == CHOOSE k \in 1..Len(xs) :
                        xs[k] = x /\ \A h \in 1..(k - 1) : xs[h] # x
MostCommon(xs) ==
    CHOOSE x \in {xs[k] : k \in 1..Len(xs)} :
        \A y \in {xs[k] : k \in 1..Len(xs)} :
            \/ Count(xs, x) > Count(xs, y)
            \/ (Count(xs, x) = Count(xs, y) /\ FirstIndex(xs, x) <= FirstIndex(xs, y))

\* update_analytics (article_storage.py:148-173): None without results, else
\* the ArticleAnalytics of the raw spp and dest values of the results.
UpdateAnalyticsOf(p, results) ==
    IF results = <<>> THEN NoneVal
    ELSE Some([article_id |-> p,
               most_common_spp |-> MostCommon([k \in 1..Len(results) |-> results[k].spp]),
               most_common_dest |-> MostCommon([k \in 1..Len(results) |-> results[k].dest]),
               total_parses |-> Len(results)])

\* The article has any list of stored results; update_analytics is about to
\* be called for it.
AnalyticsInit ==
    /\ articles_file = <<"p1">>
    /\ accounts_file = <<>>
    /\ results_file = {}
    /\ analytics_file = {}
    /\ proxies_file = {}
    /\ cookies_backup = NoBackup
    /\ restore = NoRestore
    /\ run = [r \in RunIds |-> IdleRun]
    /\ parse_now_resp = [d \in DemandIds |-> NoneVal]
    /\ produced = [pr \in Pairs |-> 0]
    /\ starts = 0
    /\ faults = 0
    /\ edits = 0
    /\ NoSessions
    /\ op_arg \in {Some(q) : q \in ResultLists}
    /\ op_ret = NoneVal

\* update_analytics("p1") (article_storage.py:145-185): the analytics record
\* is stored under the article id and returned.
UpdateAnalyticsCall ==
    /\ op_ret = NoneVal
    /\ LET analytics == UpdateAnalyticsOf("p1", op_arg[1])
       IN /\ op_ret' = Some(Returned(analytics))
          /\ analytics_file' = IF analytics = NoneVal THEN analytics_file
                               ELSE AnalyticsSet(analytics_file, analytics[1])
    /\ UNCHANGED <<articles_file, accounts_file, results_file, run,
                   parse_now_resp, produced, starts, faults, proxies_file, cookies_backup, restore, edits, authVars, op_arg>>

AnalyticsNext == UpdateAnalyticsCall

AnalyticsSpec == AnalyticsInit /\ [][AnalyticsNext]_vars

\* ---- link requests
\* math.floor(spp / 10) * 10 (articles.py:222), spp in hundredths.
FloorToTen(spp) == (spp \div 1000) * 1000

\* Results stored when links are requested: every spp value with one dest,
\* and one result with the other dest.
LinkSampleValues ==
    {SampleValue(x, "-1257786") : x \in SppValues} \cup {SampleValue(4393, "123585")}
LinkResultLists == UNION {[1..n -> LinkSampleValues] : n \in 0..MaxLinkSamples}

\* data/articles.json when links are requested.
ArticleLists == {<<>>, <<"p1">>, <<"p1", "p2">>}
Tracked(articles) == {articles[k] : k \in 1..Len(articles)}

\* all_spp / all_dest of get_global_link (articles.py:196-204): the results
\* of the articles from the k-th on, in the order of the articles.
RECURSIVE AllResults(_, _, _)
AllResults(articles, results, k) ==
    IF k > Len(articles) THEN <<>>
    ELSE results[articles[k]] \o AllResults(articles, results, k + 1)

\* An HTTP 404 / a LinkResponse.
NotFound == [status |-> 404, body |-> NoneVal]
LinkResponse(id, spp, dest, n) ==
    [status |-> 200,
     body |-> Some([article_id |-> id, most_common_spp |-> spp,
                    most_common_dest |-> dest, total_parses |-> n])]

\* get_global_link after its loop over the articles (articles.py:213-284),
\* all being the results it collected: 404 without, else the most common
\* floored spp and the most common dest.
GetGlobalLink(all) ==
    IF all = <<>> THEN NotFound
    ELSE LinkResponse("GLOBAL",
             MostCommon([k \in 1..Len(all) |-> FloorToTen(all[k].spp)]),
             MostCommon([k \in 1..Len(all) |-> all[k].dest]),
             Len(all))

\* get_article_link (articles.py:102-117, article_storage.py:187-205): the
\* stored analytics of the article, 404 without.
GetArticleLink(analytics, p) ==
    IF \E an \in analytics : an.article_id = p
    THEN LET an == CHOOSE an \in analytics : an.article_id = p
         IN  LinkResponse(p, an.most_common_spp, an.most_common_dest, an.total_parses)
    ELSE NotFound

\* data/parsing_results.json when links are requested: per article id the
\* (spp, dest) of its results in dict order; EmptyStore is also what
\* _load_json reads ({}) from a file that does not parse.
EmptyStore == [a \in ArticleIdSet |-> <<>>]
LinkStores ==
    {g \in [ArticleIdSet -> LinkResultLists] :
        /\ \A a \in ArticleIdSet \ Tracked(articles_file) : g[a] = <<>>
        /\ Len(AllResults(articles_file, g, 1)) <= MaxLinkSamples}

\* The threads that run parse_all_articles at one time (the interval job
\* and a POST /articles/parse/now) and so call add_parsing_result and
\* update_analytics.
LinkThreads == {"periodic", "demand"}

\* A thread that is in neither call.  In a call: op is the method, article
\* its article, results what get_parsing_results returned, record the
\* ArticleAnalytics computed, data the dict to be written, clobbered whether
\* another writer has written the file since this one opened it.
LinkIdle ==
    [pc |-> "idle", op |-> "", article |-> "", results |-> <<>>,
     record |-> NoneVal, data |-> NoneVal, clobbered |-> FALSE]

\* Articles are tracked and results stored for tracked articles; no
\* analytics computed yet.
LinkInit ==
    /\ articles_file \in ArticleLists
    /\ accounts_file = <<>>
    /\ results_file \in LinkStores
    /\ analytics_file = {}
    /\ proxies_file = {}
    /\ cookies_backup = NoBackup
    /\ restore = NoRestore
    /\ run = [r \in RunIds |-> LinkIdle]
    /\ parse_now_resp = [d \in DemandIds |-> NoneVal]
    /\ produced = [pr \in Pairs |-> 0]
    /\ starts = 0
    /\ faults = 0
    /\ edits = 0
    /\ NoSessions
    /\ NoCall

\* A file operation that fails (ok = FALSE) is counted in faults.
LinkFault(ok) ==
    /\ ~ok => faults < MaxFaults
    /\ faults' = IF ok THEN faults ELSE faults + 1

\* The other threads that have the file of t open for writing find it
\* written under them when t writes.
Clobber(t, pc) ==
    [r \in RunIds |->
        IF r # t /\ run[r].pc = pc THEN [run[r] EXCEPT !.clobbered = TRUE]
        ELSE IF r = t THEN LinkIdle ELSE run[r]]

\* What json.dump and the close of the file can do (article_storage.py:48-49):
\* write the data ("ok"); raise with nothing written ("failed"); or, when
\* another writer has written since this one opened the file, leave the
\* bytes of that writer behind the shorter data of this one ("garbled").
DumpOutcomes(task) ==
    {"ok", "failed"} \cup (IF task.clobbered THEN {"garbled"} ELSE {})

\* The dict _load_json reads back after the dump: the data; the file as it
\* is after a write that failed (empty since this writer opened it, or what
\* another writer has written since); {}, here empty, for a garbled file.
Dumped(file, data, empty, outcome) ==
    CASE outcome = "ok" -> data
      [] outcome = "failed" -> file
      [] outcome = "garbled" -> empty

\* update_analytics(p) as the closing loop of a run calls it for a tracked
\* article (wb_parser.py:670-671, article_storage.py:148-173), up to the
\* ArticleAnalytics: get_parsing_results reads the results file ([] when the
\* read fails); without results it returns None.
LinkUpdateAnalytics(t, p) ==
    /\ op_ret = NoneVal
    /\ run[t].pc = "idle"
    /\ p \in Tracked(articles_file)
    /\ starts < MaxStarts
    /\ starts' = starts + 1
    /\ \E ok \in BOOLEAN :
         /\ LinkFault(ok)
         /\ LET results == IF ok THEN results_file[p] ELSE <<>>
                analytics == UpdateAnalyticsOf(p, results)
            IN run' = [run EXCEPT ![t] =
                         IF analytics = NoneVal THEN LinkIdle
                         ELSE [LinkIdle EXCEPT !.pc = "an_load",
                                               !.op = "update_analytics",
                                               !.article = p,
                                               !.results = results,
                                               !.record = analytics]]
    /\ UNCHANGED <<articles_file, accounts_file, results_file, analytics_file,
                   proxies_file, cookies_backup, restore, parse_now_resp, produced,
                   edits, authVars, opVars>>

\* update_analytics: data = _load_json(analytics_file), {} when the read
\* fails; data[article_id] = analytics (article_storage.py:176-177).
LinkLoadAnalytics(t) ==
    /\ op_ret = NoneVal
    /\ run[t].pc = "an_load"
    /\ \E ok \in BOOLEAN :
         /\ LinkFault(ok)
         /\ run' = [run EXCEPT ![t].pc = "an_open",
                               ![t].data =
                                   Some(AnalyticsSet(IF ok THEN analytics_file ELSE {},
                                                     run[t].record[1]))]
    /\ UNCHANGED <<articles_file, accounts_file, results_file, analytics_file,
                   proxies_file, cookies_backup, restore, parse_now_resp, produced,
                   starts, edits, authVars, opVars>>

\* update_analytics: _save_json opens analytics.json with "w"
\* (article_storage.py:48): the file is empty until json.dump has written
\* it, and reads as {}; a failed open leaves it as it was and is logged.
LinkOpenAnalytics(t) ==
    /\ op_ret = NoneVal
    /\ run[t].pc = "an_open"
    /\ \E ok \in BOOLEAN :
         /\ LinkFault(ok)
         /\ analytics_file' = IF ok THEN {} ELSE analytics_file
         /\ run' = [run EXCEPT ![t] =
                      IF ok THEN [run[t] EXCEPT !.pc = "an_dump"] ELSE LinkIdle]
    /\ UNCHANGED <<articles_file, accounts_file, results_file, proxies_file,
                   cookies_backup, restore, parse_now_resp, produced, starts, edits,
                   authVars, opVars>>

\* update_analytics: json.dump and the close of analytics.json
\* (article_storage.py:49); the record is returned, its caller does not
\* look at it.
LinkDumpAnalytics(t) ==
    /\ op_ret = NoneVal
    /\ run[t].pc = "an_dump"
    /\ \E o \in DumpOutcomes(run[t]) :
         /\ LinkFault(o # "failed")
         /\ analytics_file' = Dumped(analytics_file, run[t].data[1], {}, o)
    /\ run' = Clobber(t, "an_dump")
    /\ UNCHANGED <<articles_file, accounts_file, results_file, proxies_file,
                   cookies_backup, restore, parse_now_resp, produced, starts, edits,
                   authVars, opVars>>

\* data[article_id][account_uuid] = result.to_dict()
\* (article_storage.py:104-108) on the results of the article in dict order:
\* the result of an account that has one, the k-th, is replaced in its
\* place; that of an account that has none (k = Len + 1) is put last.
PutResult(results, k, v) ==
    IF k <= Len(results) THEN [results EXCEPT ![k] = v] ELSE Append(results, v)

\* add_parsing_result(result) for an article p (article_storage.py:95-108),
\* up to the write: the results file is read ({} when the read fails) and
\* the result put under its article and account.  The account is the one
\* of the k-th result of the article in the dict that was read, or one that
\* has no result there.
LinkAddResult(t, p, k, v) ==
    /\ op_ret = NoneVal
    /\ run[t].pc = "idle"
    /\ p \in Tracked(articles_file)
    /\ edits < MaxEdits
    /\ edits' = edits + 1
    /\ \E ok \in BOOLEAN :
         /\ LinkFault(ok)
         /\ LET data == IF ok THEN results_file ELSE EmptyStore
            IN /\ k \in 1..(Len(data[p]) + 1)
               /\ run' = [run EXCEPT ![t] =
                            [LinkIdle EXCEPT
                                !.pc = "res_open",
                                !.op = "add_parsing_result",
                                !.article = p,
                                !.data = Some([data EXCEPT ![p] = PutResult(@, k, v)])]]
    /\ UNCHANGED <<articles_file, accounts_file, results_file, analytics_file,
                   proxies_file, cookies_backup, restore, parse_now_resp, produced,
                   starts, authVars, opVars>>

\* add_parsing_result: _save_json opens parsing_results.json with "w"
\* (article_storage.py:109, 48).
LinkOpenResults(t) ==
    /\ op_ret = NoneVal
    /\ run[t].pc = "res_open"
    /\ \E ok \in BOOLEAN :
         /\ LinkFault(ok)
         /\ results_file' = IF ok THEN EmptyStore ELSE results_file
         /\ run' = [run EXCEPT ![t] =
                      IF ok THEN [run[t] EXCEPT !.pc = "res_dump"] ELSE LinkIdle]
    /\ UNCHANGED <<articles_file, accounts_file, analytics_file, proxies_file,
                   cookies_backup, restore, parse_now_resp, produced, starts, edits,
                   authVars, opVars>>

\* add_parsing_result: json.dump and the close of parsing_results.json
\* (article_storage.py:49).
LinkDumpResults(t) ==
    /\ op_ret = NoneVal
    /\ run[t].pc = "res_dump"
    /\ \E o \in DumpOutcomes(run[t]) :
         /\ LinkFault(o # "failed")
         /\ results_file' = Dumped(results_file, run[t].data[1], EmptyStore, o)
    /\ run' = Clobber(t, "res_dump")
    /\ UNCHANGED <<articles_file, accounts_file, analytics_file, proxies_file,
                   cookies_backup, restore, parse_now_resp, produced, starts, edits,
                   authVars, opVars>>

\* GET /articles/{article_id}/link (articles.py:99-117,
\* article_storage.py:187-205): one read of analytics.json, {} when the read
\* fails.  The handlers run one at a time on the event loop.
GetArticleLinkCall(p) ==
    /\ op_ret = NoneVal
    /\ op_arg = NoneVal
    /\ \E ok \in BOOLEAN :
         /\ LinkFault(ok)
         /\ op_ret' = Some([op |-> "get_article_link", id |-> p,
                            resp |-> GetArticleLink(IF ok THEN analytics_file ELSE {}, p)])
    /\ UNCHANGED <<articles_file, accounts_file, results_file, analytics_file,
                   proxies_file, cookies_backup, restore, run, parse_now_resp, produced,
                   starts, edits, authVars, op_arg>>

\* GET /articles/global-link up to its loop (articles.py:180-193):
\* get_all_articles, [] when the read fails; 404 without articles.  The
\* handler is kept in op_arg: its articles, the index of the article whose
\* results it reads next, and the results collected (all_spp, all_dest).
GetGlobalLinkBegin ==
    /\ op_ret = NoneVal
    /\ op_arg = NoneVal
    /\ \E ok \in BOOLEAN :
         /\ LinkFault(ok)
         /\ LET articles == GetAllArticles(articles_file, ok)
            IN IF articles = <<>>
               THEN /\ op_ret' = Some([op |-> "get_global_link", id |-> "GLOBAL",
                                       read |-> <<>>, resp |-> NotFound])
                    /\ op_arg' = op_arg
               ELSE /\ op_arg' = Some([articles |-> articles, k |-> 1, all |-> <<>>])
                    /\ op_ret' = op_ret
    /\ UNCHANGED <<articles_file, accounts_file, results_file, analytics_file,
                   proxies_file, cookies_backup, restore, run, parse_now_resp, produced,
                   starts, edits, authVars>>

\* get_global_link, one turn of its loop (articles.py:196-211):
\* get_parsing_results reads parsing_results.json as it is at that moment
\* ([] when the read fails) and the results of the article are collected;
\* after the last article the response (articles.py:213-284).
GetGlobalLinkRead ==
    /\ op_ret = NoneVal
    /\ op_arg # NoneVal
    /\ \E ok \in BOOLEAN :
         /\ LinkFault(ok)
         /\ LET h   == op_arg[1]
                all == h.all \o (IF ok THEN results_file[h.articles[h.k]] ELSE <<>>)
            IN IF h.k < Len(h.articles)
               THEN /\ op_arg' = Some([h EXCEPT !.k = @ + 1, !.all = all])
                    /\ op_ret' = op_ret
               ELSE /\ op_ret' = Some([op |-> "get_global_link", id |-> "GLOBAL",
                                       read |-> all, resp |-> GetGlobalLink(all)])
                    /\ op_arg' = op_arg
    /\ UNCHANGED <<articles_file, accounts_file, results_file, analytics_file,
                   proxies_file, cookies_backup, restore, run, parse_now_resp, produced,
                   starts, edits, authVars>>

LinkNext ==
    \/ \E t \in LinkThreads : \E p \in ArticleIdSet : LinkUpdateAnalytics(t, p)
    \/ \E t \in LinkThreads : LinkLoadAnalytics(t)
    \/ \E t \in LinkThreads : LinkOpenAnalytics(t)
    \/ \E t \in LinkThreads : LinkDumpAnalytics(t)
    \/ \E t \in LinkThreads : \E p \in ArticleIdSet :
          \E k \in 1..(MaxLinkSamples + 1) : \E v \in LinkSampleValues :
              LinkAddResult(t, p, k, v)
    \/ \E t \in LinkThreads : LinkOpenResults(t)
    \/ \E t \in LinkThreads : LinkDumpResults(t)
    \/ \E p \in ArticleIdSet : GetArticleLinkCall(p)
    \/ GetGlobalLinkBegin
    \/ GetGlobalLinkRead

LinkSpec == LinkInit /\ [][LinkNext]_vars


\* ================================================================ claims
\* A run is executing parse_all_articles.
InFlight(r) ==
    run[r].pc \in {"parse", "load", "save", "sleep", "analytics", "an_load",
                   "an_save"}
\* parse_all_articles has returned or raised.
Ended(r) == run[r].pc \in {"done", "raised"}
NumPairs(r) == Len(run[r].articles) * Len(run[r].accounts)
\* C1: a failing parse_article never aborts the batch: when
\* parse_all_articles ends, every pair of articles x accounts has been
\* attempted, and with exactly one failed pair it returns N*M - 1.
C1_FailureNeverAbortsBatch ==
    \A r \in RunIds :
        Ended(r) =>
            /\ run[r].ncalls = NumPairs(r)
            /\ (run[r].ncalls - run[r].nsucc = 1
                    => run[r].ret = Some(NumPairs(r) - 1))

\* C2: the sample store holds at most one ParsingResult per
\* (article_id, account_uuid) pair, in every reachable state.
C2_OneSamplePerPair ==
    \A e1, e2 \in results_file :
        (e1.article_id = e2.article_id /\ e1.account_uuid = e2.account_uuid)
            => e1 = e2

\* C2 witness: add_parsing_result has just stored the second result produced
\* for a pair whose first result was stored before.
C2_Witness ==
    \E r \in RunIds :
        /\ run[r].pc = "sleep"
        /\ run[r].result # NoneVal
        /\ run[r].result[1].stamp = 2
        /\ run[r].result[1] \in results_file
        /\ faults = 0
    /\ edits = 0

\* C3: when every run started so far has completed (none raised, none is in
\* flight, no file operation failed), the stored sample of every pair is the
\* latest result parse_article produced for it.
C3_StoredIsLatest ==
    (/\ faults = 0
     /\ starts >= 1
     /\ Cardinality({r \in RunIds : run[r].pc = "done"}) = starts)
        => \A pr \in Pairs :
              produced[pr] > 0
                 => ParsingResult(pr[1], pr[2], produced[pr]) \in results_file

\* C4: the value parse_all_articles returns is the number of pairs for which
\* parse_article succeeded, and the counter is incremented only together
\* with the sample being persisted in the sample store.
C4_CountedMeansPersisted ==
    [][\A r \in RunIds :
          /\ (run'[r].total_parsed = run[r].total_parsed + 1
                 => run[r].result[1] \in results_file')
          /\ (run'[r].pc = "done" => run'[r].ret = Some(run'[r].nsucc))]_vars

\* C5: no two executions of parse_all_articles are in flight at once.
C5_NoOverlappingRuns ==
    Cardinality({r \in RunIds : InFlight(r)}) <= 1

\* C6: the response of POST /articles/parse/now carries the count that the
\* parse_all_articles run it triggered returned.
C6_RunNowReturnsCount ==
    \A d \in DemandIds :
        (parse_now_resp[d] # NoneVal /\ run[d].pc = "idle"
            /\ run[d].ret # NoneVal)
            => parse_now_resp[d][1].total_parsed = run[d].ret

\* C7: with no article or no account parse_all_articles returns 0 without
\* calling parse_article and without writing a result or an analytics record.
C7_EmptyReturnsZero ==
    \A r \in RunIds :
        (run[r].pc = "done" /\ (run[r].articles = <<>> \/ run[r].accounts = <<>>))
            => /\ run[r].ret = Some(0)
               /\ run[r].ncalls = 0
               /\ run[r].nwrites = 0

\* C7 witness: a run has returned with articles tracked, samples stored and
\* no account.
C7_Witness ==
    \E r \in RunIds :
        /\ run[r].pc = "done"
        /\ run[r].accounts = <<>>
        /\ run[r].articles # <<>>
        /\ results_file # {}


\* The codes the receive loop has received in non-blank submit_code
\* messages, in arrival order.
IsCodeMsg(m) == m.type = "submit_code" /\ Strip(m.code) # ""
ArrivedCodes(s) ==
    LET ms == SelectSeq(handled[s], IsCodeMsg)
    IN  [k \in 1..Len(ms) |-> Strip(ms[k].code)]
SeqRange(q) == {q[k] : k \in 1..Len(q)}

\* The session has left AWAITING_CODE: its wait timed out, or the flow has
\* succeeded or failed.
LeftAwaitingCode(s) ==
    \/ flow[s] \in {"timing_out", "login_failed", "failed", "success", "completed"}
    \/ (flow[s] = "after_wait" /\ wait_ret[s] = NoneVal)

\* C8: wait_for_code returns None exactly when no submit_code has arrived
\* before the timeout, and otherwise returns a submitted code: the timer
\* fires only for a wait no code has arrived in, a wait whose timer has not
\* fired returns a code that arrived, and a wait whose timer has fired
\* returns None.
C8_WaitForCode ==
    [][\A s \in SessionIds :
          /\ (flow[s] = "in_wait" /\ flow'[s] = "timing_out")
                => ArrivedCodes(s) = <<>>
          /\ (flow[s] = "in_wait" /\ ArrivedCodes(s) # <<>>)
                => /\ ~ENABLED TimerFires(s)
                   /\ ENABLED WaitReturn(s)
          /\ (flow[s] = "in_wait" /\ flow'[s] = "after_wait")
                => /\ wait_ret'[s] # NoneVal
                   /\ wait_ret'[s][1] \in SeqRange(ArrivedCodes(s))
          /\ (flow[s] = "timing_out" /\ flow'[s] = "after_wait")
                => wait_ret'[s] = NoneVal]_vars

\* C8 witness: wait_for_code has returned the code submitted while the flow
\* was suspended in it.
C8_Witness ==
    \E s \in SessionIds :
        /\ flow[s] = "after_wait"
        /\ wait_ret[s] = Some("1111")
        /\ ArrivedCodes(s) = <<"1111">>

\* C9: one code is accepted per session: the pending code is always the
\* first code accepted, and it is the code wait_for_code returns.
C9_FirstCodeKept ==
    \A s \in SessionIds :
        /\ (sess[s].code # NoneVal
               => sess[s].code = Some(Head(ArrivedCodes(s))))
        /\ ((flow[s] = "after_wait" /\ wait_ret[s] # NoneVal)
               => wait_ret[s] = Some(Head(ArrivedCodes(s))))

\* C10: a submit_code handled after the session has left AWAITING_CODE is
\* answered on the channel and leaves the session, its code included,
\* unchanged.
C10_LateCodeRejected ==
    [][\A s \in SessionIds :
          (/\ LeftAwaitingCode(s)
           /\ Len(handled'[s]) = Len(handled[s]) + 1
           /\ handled'[s][Len(handled'[s])].type = "submit_code")
             => /\ sess'[s] = sess[s]
                /\ Len(outbox'[s]) = Len(outbox[s]) + 1
                /\ outbox'[s][Len(outbox'[s])].type = "error"]_vars

\* C11: once the disconnect of the channel has been handled, the login flow
\* is no longer blocked in wait_for_code: the wait has been woken.
C11_DisconnectWakesWait ==
    \A s \in SessionIds :
        ~(handler[s] = "joining" /\ flow[s] = "in_wait" /\ ~sess[s].code_event)

\* The session's login attempt has terminated: the flow has reached
\* SUCCEEDED or FAILED, or the channel has closed.
Terminated(s) ==
    \/ flow[s] \in {"failed", "completed"}
    \/ handler[s] \in {"joining", "closing", "closed"}

\* C12: a registered session whose login attempt has terminated (flow
\* succeeded or failed, or channel closed) is eventually removed from the
\* registry.
C12_TerminatedSessionRemoved ==
    \A s \in SessionIds :
        (SessionUuid(s) \in active_sessions /\ Terminated(s))
            ~> (SessionUuid(s) \notin active_sessions)

\* The handler of a session has created it and not yet removed it.
Registered(s) == handler[s] \in {"receiving", "joining", "closing"}

\* C13: with two login attempts running at once, their session ids are
\* distinct, and in every interleaving of their create_session /
\* close_session calls each session is retrievable from the registry
\* exactly from its creation to its own removal, whatever the other does.
C13_RegistryIndependent ==
    /\ \A s, u \in TwoSessionIds : s # u => SessionUuid(s) # SessionUuid(u)
    /\ \A s \in TwoSessionIds :
          /\ Registered(s) =>
                GetSession(active_sessions, SessionUuid(s)) = Some(SessionUuid(s))
          /\ ~Registered(s) =>
                GetSession(active_sessions, SessionUuid(s)) = NoneVal

\* C13 witness: both sessions were created, the first has been removed and
\* the second, in the middle of its own close_session, is still registered.
C13_Witness ==
    /\ handler["s1"] = "closed"
    /\ handler["s2"] = "closing"
    /\ active_sessions = {SessionUuid("s2")}

\* C14: a registry call on an id that is not registered returns normally
\* (get_session: None) and leaves the registry as it was, also when the id
\* was removed by another caller while close_session was suspended; no
\* registry call raises; and once remove_session or close_session has
\* returned the id is not registered, so that removing it again is such a
\* call on an absent id.
C14_AbsentIdBenign ==
    [][\A c \in Callers :
          (op_arg'[c] # op_arg[c] \/ op_ret'[c] # op_ret[c]) =>
              LET call == op_arg'[c][1]
              IN  /\ op_ret'[c] # NoneVal => ~op_ret'[c][1].raised
                  /\ call.id \notin active_sessions
                        => /\ active_sessions' = active_sessions
                           /\ op_ret'[c] = Some(Returned(NoneVal))
                  /\ (call.op \in {"remove_session", "close_session"}
                        /\ op_ret'[c] # NoneVal)
                        => call.id \notin active_sessions']_vars

\* C14 witness: c1 called close_session for a registered session and, while
\* it was suspended, c2 removed that session; c1's remove_session then ran
\* on an id that was not registered, and the other session is still there.
C14_Witness ==
    /\ op_arg["c1"] # NoneVal /\ op_arg["c2"] # NoneVal
    /\ op_arg["c1"][1].op = "close_session"
    /\ op_arg["c1"][1].id = SessionUuid("s1")
    /\ op_arg["c1"][1].before = {SessionUuid("s1"), SessionUuid("s2")}
    /\ op_arg["c2"][1].op = "remove_session"
    /\ op_arg["c2"][1].id = SessionUuid("s1")
    /\ op_arg["c2"][1].before = {SessionUuid("s1"), SessionUuid("s2")}
    /\ op_ret["c1"] = Some(Returned(NoneVal))
    /\ op_ret["c2"] = Some(Returned(NoneVal))
    /\ active_sessions = {SessionUuid("s2")}

\* The account created for a session is stored / is stored with cookies.
HasAccount(s) ==
    \E k \in 1..Len(accounts_file) : accounts_file[k].uuid = AccountUuid(s)
HasCookies(s) ==
    \E k \in 1..Len(accounts_file) :
        accounts_file[k].uuid = AccountUuid(s) /\ accounts_file[k].cookies

\* C15: the cookies of an account are written exactly when its login flow
\* succeeds: an account has cookies only when its flow has completed; a
\* flow that failed has written none; cookies that appear later (restored
\* from the backup update_cookies made) appear on the account of a
\* completed flow; and the step in which a flow that has reported the
\* status success ends leaves the account with cookies.
C15_CookiesExactlyOnSuccess ==
    [][\A s \in SessionIds :
          /\ HasCookies(s)' => flow'[s] = "completed"
          /\ (HasCookies(s)' /\ ~HasCookies(s))
                => \/ flow[s] = "success" /\ flow'[s] = "completed"
                   \/ flow[s] = "completed" /\ flow'[s] = "completed"
                         /\ AccountUuid(s) \in cookies_backup.keys
          /\ (flow[s] = "success" /\ flow'[s] # "success")
                => HasCookies(s)']_vars

\* C16: a login attempt that ended FAILED has left no Account record of its
\* own in accounts.json.
C16_FailedLeavesNoAccount ==
    \A s \in SessionIds : flow[s] = "failed" => ~HasAccount(s)

\* The last event delivered to the channel of a session is an error event.
LastIsError(box) == box # <<>> /\ box[Len(box)].type = "error"
HasStatus(box, st) == \E k \in 1..Len(box) : box[k] = Event("status", st)

\* C17: when a login flow ends FAILED while its channel is connected, the
\* step that ends it delivers an error event to the channel.
C17_FailureSendsError ==
    [][\A s \in SessionIds :
          (flow'[s] = "failed" /\ flow[s] # "failed" /\ handler[s] = "receiving")
             => (Len(outbox'[s]) = Len(outbox[s]) + 1 /\ LastIsError(outbox'[s]))]_vars

\* C17 witness: the wait for the code timed out, the flow has failed and
\* the last event on the connected channel is an error.
C17_Witness ==
    \E s \in SessionIds :
        /\ flow[s] = "failed"
        /\ handler[s] = "receiving"
        /\ HasStatus(outbox[s], "waiting_for_code")
        /\ wait_ret[s] = NoneVal
        /\ sess[s].code = NoneVal
        /\ LastIsError(outbox[s])

\* The message handled by a step of the receive loop of s, if it is one.
Handles(s) == Len(handled'[s]) = Len(handled[s]) + 1
Handled(s) == handled'[s][Len(handled'[s])]

\* A code that is empty or whitespace only.
IsBlank(raw) == raw \in {"", " "}

\* C18: a submit_code with a blank code is answered with an error event and
\* changes neither the session nor the flow; a non-blank code handled in
\* any later turn is stored and sets the event.
C18_BlankCodeRejected ==
    [][\A s \in SessionIds :
          (Handles(s) /\ Handled(s).type = "submit_code")
             => IF IsBlank(Handled(s).code)
                THEN /\ sess'[s] = sess[s]
                     /\ flow'[s] = flow[s]
                     /\ wait_ret'[s] = wait_ret[s]
                     /\ handler'[s] = "receiving"
                     /\ outbox'[s] = Append(outbox[s], Event("error", "empty_code"))
                ELSE /\ sess'[s].code = Some(Handled(s).code)
                     /\ sess'[s].code_event]_vars

\* C18 witness: a blank code, then "1111" were submitted, and wait_for_code
\* returned "1111".
C18_Witness ==
    \E s \in SessionIds :
        /\ handled[s] = <<Msg("submit_code", " "), Msg("submit_code", "1111")>>
        /\ flow[s] = "after_wait"
        /\ wait_ret[s] = Some("1111")

\* C19: a message whose type is neither submit_code nor ping is ignored:
\* nothing is sent, session and flow are unchanged and the receive loop goes
\* on.
C19_UnknownTypeIgnored ==
    [][\A s \in SessionIds :
          (Handles(s) /\ Handled(s).type \notin {"submit_code", "ping"})
             => /\ outbox'[s] = outbox[s]
                /\ sess'[s] = sess[s]
                /\ flow'[s] = flow[s]
                /\ wait_ret'[s] = wait_ret[s]
                /\ active_sessions' = active_sessions
                /\ handler'[s] = "receiving"]_vars

\* C19 witness: after a message of another type a ping was answered.
C19_Witness ==
    \E s \in SessionIds :
        /\ handled[s] = <<Msg("other", ""), Msg("ping", "")>>
        /\ outbox[s] # <<>>
        /\ outbox[s][Len(outbox[s])] = Event("pong", "")

Mapped(xs, F(_)) == [k \in 1..Len(xs) |-> F(xs[k])]
DestOf(sample) == sample.dest
Bucket(sample) == FloorToTen(sample.spp)

\* C20: the analytics update_analytics returns for a non-empty list of
\* results reports the most frequent spp bucket (spp floored to a multiple of
\* ten, the first-seen bucket on a tie), the most frequent raw dest, and the
\* number of results.
C20_ConsensusBuckets ==
    (op_ret # NoneVal /\ op_arg[1] # <<>>)
        => /\ op_ret[1].value # NoneVal
           /\ op_ret[1].value[1].most_common_spp = MostCommon(Mapped(op_arg[1], Bucket))
           /\ op_ret[1].value[1].most_common_dest = MostCommon(Mapped(op_arg[1], DestOf))
           /\ op_ret[1].value[1].total_parses = Len(op_arg[1])

\* The spp buckets of a list of results; b holds a strict plurality of them.
Buckets(results) == Mapped(results, Bucket)
StrictPlurality(bs, b) ==
    /\ b \in SeqRange(bs)
    /\ \A y \in SeqRange(bs) \ {b} : Count(bs, b) > Count(bs, y)

\* The response of the last link request, if it was a 200 of get_global_link.
GlobalAnswered ==
    op_ret # NoneVal /\ op_ret[1].op = "get_global_link" /\ op_ret[1].resp.status = 200

\* C21: when one spp bucket holds a strict plurality of the samples, the
\* consensus spp is that bucket in whatever order the samples are stored:
\* in the analytics update_analytics computes from the results of a product
\* and in the global link, answered from the results the request read.
C21_ConsensusOrderIndependent ==
    /\ \A t \in LinkThreads :
          run[t].record # NoneVal =>
              \A b \in SeqRange(Buckets(run[t].results)) :
                  StrictPlurality(Buckets(run[t].results), b)
                      => run[t].record[1].most_common_spp = b
    /\ GlobalAnswered =>
          \A b \in SeqRange(Buckets(op_ret[1].read)) :
              StrictPlurality(Buckets(op_ret[1].read), b)
                  => op_ret[1].resp.body[1].most_common_spp = b

\* No add_parsing_result is between its open and its json.dump: the results
\* file holds what is stored.
ResultsAtRest == \A t \in LinkThreads : run[t].pc # "res_dump"

\* C22: a link request for a scope without stored samples is answered 404
\* with no body: get_global_link when no article is tracked or it found no
\* stored result of any, get_article_link for an article without stored
\* results; and no 200 answer reports zero samples.
C22_NoDataIsNotFound ==
    op_ret # NoneVal =>
        /\ (/\ op_ret[1].op = "get_global_link"
            /\ (articles_file = <<>> \/ op_ret[1].read = <<>>))
              => op_ret[1].resp = NotFound
        /\ (/\ op_ret[1].op = "get_article_link"
            /\ ResultsAtRest
            /\ results_file[op_ret[1].id] = <<>>)
              => op_ret[1].resp = NotFound
        /\ op_ret[1].resp.status = 200
              => op_ret[1].resp.body[1].total_parses > 0

\* The pairs of the parse_article calls in a run's log, in call order.
IsCall(e) == e.ev = "call"
PairOf(e) == e.pair
Calls(log) == Mapped(SelectSeq(log, IsCall), PairOf)

\* The product-major enumeration of articles x accounts.
ProductMajor(articles, accounts) ==
    [k \in 1..(Len(articles) * Len(accounts)) |->
        <<articles[((k - 1) \div Len(accounts)) + 1],
          accounts[((k - 1) % Len(accounts)) + 1].uuid>>]

\* C23: the parse_article calls of a run that completed are exactly the
\* product-major enumeration of its articles x accounts: every pair once,
\* all accounts of an article before the next article, no pair retried.
C23_ProductMajorOnce ==
    \A r \in RunIds :
        (run[r].pc = "done" /\ ~NothingToParse(run[r].articles, run[r].accounts))
            => Calls(run[r].log) = ProductMajor(run[r].articles, run[r].accounts)

\* C23 witness: a run over two articles and two accounts has completed with
\* one failed pair.
C23_Witness ==
    \E r \in RunIds :
        /\ run[r].pc = "done"
        /\ Len(run[r].articles) = 2
        /\ Len(run[r].accounts) = 2
        /\ run[r].ncalls = 4
        /\ run[r].nsucc = 3

\* The accounts of a run that have cookies.
WithCookies(accounts) ==
    {accounts[k].uuid : k \in {h \in 1..Len(accounts) : accounts[h].cookies}}

\* C24: parse_article is called only for accounts that have cookies, and a
\* run none of whose accounts has cookies calls it for none.
C24_OnlyAccountsWithCookies ==
    \A r \in RunIds :
        \A k \in 1..Len(Calls(run[r].log)) :
            Calls(run[r].log)[k][2] \in WithCookies(run[r].accounts)

\* C25: within a run the parse_article calls are strictly sequential and
\* paced: each call after the first is directly preceded by a time.sleep,
\* and while a result is being stored the call that returned it is the last
\* thing the run did.
C25_SequentialAndPaced ==
    \A r \in RunIds :
        /\ \A k \in 2..Len(run[r].log) :
              IsCall(run[r].log[k]) => run[r].log[k - 1] = SleepEntry
        /\ run[r].pc \in {"load", "save"} =>
              /\ run[r].log # <<>>
              /\ IsCall(run[r].log[Len(run[r].log)])

\* C25 witness: a run has made its second call, after a failed first one.
C25_Witness ==
    \E r \in RunIds :
        /\ run[r].ncalls = 2
        /\ run[r].nsucc = 1
        /\ run[r].pc = "save"
        /\ run[r].log[2] = SleepEntry

\* The articles that have a stored result.
Sampled == {e.article_id : e \in results_file}

\* C26: a run calls update_analytics only after it has attempted all its
\* pairs, and when it has completed, every article with stored results has
\* an analytics record whose total_parses is the number of its stored
\* results.
C26_AnalyticsAfterAllPairs ==
    \A r \in RunIds :
        /\ (\E k \in 1..Len(run[r].log) : run[r].log[k].ev = "analytics")
              => Len(Calls(run[r].log)) = NumPairs(r)
        /\ run[r].pc = "done" =>
              \A p \in Sampled :
                  ArticleAnalytics(p, GetParsingResults(results_file, p))
                      \in analytics_file

\* The entry a run has just appended to its log.
LastEntry(rec) == rec.log[Len(rec.log)]

\* The account's proxy_uuid names no proxy of data/proxies.json.
Unresolved(account) ==
    account.proxy_uuid # NoneVal /\ account.proxy_uuid[1] \notin proxies_file

\* A run at the turn of an account whose proxy_uuid does not resolve.
AtUnresolvedTurn(r) ==
    /\ run[r].pc = "parse"
    /\ Unresolved(run[r].accounts[run[r].j])

\* C27: the turn of an account whose proxy_uuid does not resolve still calls
\* parse_article for the pair, with no proxy data, and the run goes on as
\* after any other call (a run is left only from inside parse_article); a
\* change of data/proxies.json changes no Account record.
C27_UnresolvedProxyStillSampled ==
    [][/\ \A r \in RunIds :
            (AtUnresolvedTurn(r) /\ run'[r] # run[r]) =>
                /\ Len(run'[r].log) = Len(run[r].log) + 1
                /\ LastEntry(run'[r]) =
                      CallEntry(run[r].articles[run[r].i],
                                run[r].accounts[run[r].j].uuid, NoneVal)
                /\ run'[r].pc \in {"load", "sleep", "raised"}
       /\ proxies_file' # proxies_file => accounts_file' = accounts_file]_vars

\* a1, bound to the deleted proxy x1, was sampled without proxy data in a
\* run that completed, and its result is stored; a1 still names x1.
C27_Witness ==
    /\ run["periodic"].pc = "done"
    /\ "x1" \notin proxies_file
    /\ \E k \in 1..Len(run["periodic"].log) :
         run["periodic"].log[k] = CallEntry("p1", "a1", NoneVal)
    /\ \E e \in results_file : e.article_id = "p1" /\ e.account_uuid = "a1"
    /\ \E k \in 1..Len(accounts_file) :
         accounts_file[k].uuid = "a1" /\ accounts_file[k].proxy_uuid = Some("x1")

\* C28: when a run of the periodic job has raised, the job instance ends
\* with nothing running and no run started in its place (no retry), which is
\* the state the next tick starts a run from; a run is started by a tick only.
C28_RaisedRunKeepsSchedule ==
    [][LET before == run["periodic"]
           after  == run'["periodic"]
       IN /\ (before.pc = "raised" /\ after # before) =>
                 /\ after.pc = "idle"
                 /\ starts' = starts
                 /\ starts < MaxStarts => (ENABLED Tick)'
          /\ (before.pc = "idle" /\ after # before) => starts' = starts + 1]_vars

\* The second tick has started a run after the first run raised: its result
\* for p1 is stored, and it never reached update_analytics.
C28_Witness ==
    /\ starts = 2
    /\ run["periodic"].pc = "parse"
    /\ run["periodic"].ncalls = 0
    /\ results_file # {}
    /\ analytics_file = {}

IsStatus(e) == e.type = "status"
DataOf(e) == e.data
\* The steps of the status events delivered to a channel, in order.
Statuses(box) == Mapped(SelectSeq(box, IsStatus), DataOf)
IsPrefix(q, full) ==
    Len(q) <= Len(full) /\ \A k \in 1..Len(q) : q[k] = full[k]
\* An error event of the login flow (not the answer to a blank code).
IsFlowError(e) == e.type = "error" /\ e.data # "empty_code"

\* C29: on a connected channel the status events of a login flow are a
\* prefix of the steps in their forward order (none twice, none skipped,
\* none out of order), the last one being the step the flow is at; once the
\* flow has failed an error event is there and no status follows it; a flow
\* that has reported the step success reports no failure after it; and the
\* flow can fail at every step where automation runs, and by timeout while
\* it waits for the code.
C29_StepsForwardAndEmitted ==
    \A s \in SessionIds :
        /\ IsPrefix(Statuses(outbox[s]), StatusSteps)
        /\ (handler[s] = "receiving" /\ flow[s] \in SeqRange(StatusSteps)) =>
              /\ Statuses(outbox[s]) # <<>>
              /\ Statuses(outbox[s])[Len(Statuses(outbox[s]))] = flow[s]
        /\ (handler[s] = "receiving" /\ flow[s] \in {"login_failed", "failed"}) =>
              \E k \in 1..Len(outbox[s]) : IsFlowError(outbox[s][k])
        /\ \A j, k \in 1..Len(outbox[s]) :
              (j < k /\ IsFlowError(outbox[s][j])) => ~IsStatus(outbox[s][k])
        /\ \A j, k \in 1..Len(outbox[s]) :
              (j < k /\ outbox[s][j] = Event("status", "success"))
                  => ~IsFlowError(outbox[s][k])
        /\ flow[s] \in AutomationSteps => ENABLED LoginFail(s)
        /\ (flow[s] = "in_wait" /\ ~sess[s].code_event) => ENABLED TimerFires(s)

\* The flow of a session is suspended in wait_for_code, its channel open.
Waiting(s) == flow[s] \in {"in_wait", "timing_out"} /\ handler[s] = "receiving"

\* C30: while the login flow is suspended in wait_for_code the receive loop
\* takes its turns: it can handle a ping and a submit_code; a ping handled
\* then is answered with pong and changes nothing of the session, the flow
\* or the registry; a non-blank submit_code handled then sets the code and
\* the event of the session; the loop goes on receiving.
C30_ReceiveRunsDuringWait ==
    [][\A s \in SessionIds :
         /\ (Waiting(s) /\ Len(handled[s]) < MaxMsgs) =>
               /\ ENABLED Receive(s, Msg("ping", ""))
               /\ ENABLED Receive(s, Msg("submit_code", "1111"))
         /\ (Waiting(s) /\ Handles(s)) =>
               /\ handler'[s] = "receiving"
               /\ flow'[s] = flow[s]
               /\ Handled(s).type = "ping" =>
                     /\ outbox'[s] = Append(outbox[s], Event("pong", ""))
                     /\ sess'[s] = sess[s]
                     /\ wait_ret'[s] = wait_ret[s]
                     /\ active_sessions' = active_sessions
                     /\ accounts_file' = accounts_file
               /\ (Handled(s).type = "submit_code" /\ ~IsBlank(Handled(s).code)) =>
                     /\ sess'[s].code = Some(Strip(Handled(s).code))
                     /\ sess'[s].code_event]_vars

\* During one wait a ping was answered with pong and then a code delivered:
\* the flow still waits, the session holds the code.
C30_Witness ==
    /\ Waiting("s1")
    /\ handled["s1"] = <<Msg("ping", ""), Msg("submit_code", "1111")>>
    /\ outbox["s1"][Len(outbox["s1"])] = Event("pong", "")
    /\ Statuses(outbox["s1"])[Len(Statuses(outbox["s1"]))] = "waiting_for_code"
    /\ sess["s1"].code = Some("1111")

\* The session id add_account issued to the client, used as a key of the
\* registry: a str(uuid4()) drawn by add_account (accounts.py:46), another
\* draw than the one AuthSession.__init__ makes (ws_manager.py:37).
IssuedKey(s) == <<"issued", s>>

\* C31: once the channel of the session id s is attached, and until the
\* session is removed, get_session of the id issued to the client returns
\* the AuthSession that serves the channel.
C31_RegistryKeyedByIssuedId ==
    \A s \in SessionIds :
        handler[s] \in {"receiving", "joining", "closing"} =>
            GetSession(active_sessions, IssuedKey(s)) # NoneVal

\* What belongs to one session: its AuthSession, its flow and its channel.
OfSession(s) == <<sess[s], flow[s], wait_ret[s], outbox[s], handler[s], handled[s]>>

\* The codes the channel of a session has handled as submit_code.
CodesOn(s) == SeqRange(ArrivedCodes(s))

\* C32: a step changes what belongs to one session at most; a turn of the
\* receive loop of one session changes nothing of another session; the
\* code a session holds, and the code its wait_for_code returned, came in
\* on its own channel.
C32_SessionsIsolated ==
    [][\A s, u \in TwoSessionIds :
         s # u =>
           /\ OfSession(s)' # OfSession(s) => OfSession(u)' = OfSession(u)
           /\ sess'[u].code # NoneVal => sess'[u].code[1] \in CodesOn(u)'
           /\ wait_ret'[u] # NoneVal => wait_ret'[u][1] \in CodesOn(u)']_vars

\* Two flows waited at once; each channel delivered its own code, and each
\* wait_for_code returned the code of its own channel.
C32_Witness ==
    /\ handled["s1"] = <<Msg("submit_code", "1111")>>
    /\ handled["s2"] = <<Msg("submit_code", "2222")>>
    /\ wait_ret["s1"] = Some("1111")
    /\ wait_ret["s2"] = Some("2222")
    /\ flow["s1"] = "entering_code"
    /\ flow["s2"] = "after_wait"

\* The stored results all belong to the article p, and its analytics have
\* been computed.
SingleProductStore(p) ==
    /\ p \in Tracked(articles_file)
    /\ \A q \in ArticleIdSet \ {p} : results_file[q] = <<>>
    /\ \E an \in analytics_file : an.article_id = p

\* The global link request read the results that are stored.
ReadTheStore == op_ret[1].read = AllResults(articles_file, results_file, 1)

\* C33: when the stored results are those of a single article, an answered
\* global link has the spp, the dest and the total_parses of the link of
\* that article.
C33_GlobalEqualsPerProduct ==
    \A p \in ArticleIdSet :
        (/\ GlobalAnswered
         /\ ReadTheStore
         /\ SingleProductStore(p)) =>
            LET g == op_ret[1].resp.body[1]
                a == GetArticleLink(analytics_file, p).body[1]
            IN  /\ g.most_common_spp = a.most_common_spp
                /\ g.most_common_dest = a.most_common_dest
                /\ g.total_parses = a.total_parses

\* The record of an account in a file, None when it has none.
RecordOf(accounts, uuid) ==
    IF Known(accounts, uuid)
    THEN Some(accounts[CHOOSE k \in 1..Len(accounts) : accounts[k].uuid = uuid])
    ELSE NoneVal

\* C34: after update_account returned, a call that passed no proxy_uuid
\* has left the proxy_uuid and the cookies of the account as they were, no
\* other account has changed, and a call for an unknown account returned
\* False and changed nothing.
C34_UpdateAccountFrame ==
    (op_ret # NoneVal /\ op_arg[1].op = "update") =>
        LET args   == op_arg[1].args
            before == op_arg[1].before
        IN  /\ \A u \in AccountIdSet :
                  (u # args.account_uuid \/ args.proxy_uuid = NoneVal) =>
                      /\ Known(accounts_file, u) = Known(before, u)
                      /\ Known(before, u) =>
                            /\ RecordOf(accounts_file, u)[1].proxy_uuid =
                                  RecordOf(before, u)[1].proxy_uuid
                            /\ RecordOf(accounts_file, u)[1].cookies =
                                  RecordOf(before, u)[1].cookies
            /\ ~Known(before, args.account_uuid) =>
                  /\ accounts_file = before
                  /\ op_ret[1].value = FALSE

\* The connections whose handler has created an AuthSession.
CreatedBy == {ch \in TwoSessionIds :
                handler[ch] \notin {"none", "accepting", "rejected"}}

\* C35: of the connections that attach with the issued session id at most
\* one has created an AuthSession and at most one a login flow, and a
\* connection that was not served has left no session in the registry.
C35_OneSessionPerIssuedId ==
    /\ Cardinality(CreatedBy) <= 1
    /\ Cardinality({ch \in TwoSessionIds : flow[ch] # "none"}) <= 1
    /\ \A ch \in TwoSessionIds :
          handler[ch] \in {"rejected", "key_error"} =>
              SessionUuid(ch) \notin active_sessions

\* A terminal event of a login flow: completed, or an error of the flow.
IsTerminalEvent(e) == e.type = "completed" \/ IsFlowError(e)

\* C36: a channel is delivered at most one terminal event, exactly one
\* once its flow has ended while it is connected, and no status, completed
\* or error event of the flow after it.
C36_OneTerminalEvent ==
    \A s \in SessionIds :
        /\ Len(SelectSeq(outbox[s], IsTerminalEvent)) <= 1
        /\ (handler[s] = "receiving" /\ flow[s] \in {"failed", "completed"}) =>
              Len(SelectSeq(outbox[s], IsTerminalEvent)) = 1
        /\ \A j, k \in 1..Len(outbox[s]) :
              (j < k /\ IsTerminalEvent(outbox[s][j])) =>
                  ~(IsStatus(outbox[s][k]) \/ IsTerminalEvent(outbox[s][k]))

\* C37: a channel has been delivered the completed event only if the
\* account of its flow holds the cookies.
C37_CompletedOnlyAfterPersisted ==
    \A s \in SessionIds :
        (\E k \in 1..Len(outbox[s]) : outbox[s][k].type = "completed") =>
            HasCookies(s)

\* C38: the write of add_parsing_result for a pair keeps every stored
\* result of every other pair.
C38_AddResultKeepsOtherPairs ==
    [][\A r \in RunIds :
         (run[r].pc = "save" /\ run'[r].pc = "sleep") =>
             \A e \in results_file :
                 (e.article_id # run[r].result[1].article_id
                    \/ e.account_uuid # run[r].result[1].account_uuid) =>
                     e \in results_file']_vars

\* Positions of a login flow before it has announced that it waits for
\* the code.
BeforeAwaitingCode ==
    {"new", "account_created", "started", "page_loaded", "entering_phone",
     "code_requested"}

\* C39: a message handled before the flow awaits the code leaves the
\* session as it was, and the flow begins to await the code with no code
\* pending.
C39_EarlyCodeNotStored ==
    [][\A s \in SessionIds :
         /\ (Handles(s) /\ flow[s] \in BeforeAwaitingCode) => sess'[s] = sess[s]
         /\ (flow[s] = "code_requested" /\ flow'[s] = "waiting_for_code") =>
               (sess'[s].code = NoneVal /\ ~sess'[s].code_event)]_vars

\* C40: the receive loop that has handled a malformed message goes on
\* receiving, and can still handle a submit_code.
C40_MalformedKeepsLoop ==
    [][\A s \in SessionIds :
         (Handles(s) /\ Handled(s).type = "malformed") =>
             /\ handler'[s] = "receiving"
             /\ Len(handled'[s]) < MaxMsgs =>
                   (ENABLED Receive(s, Msg("submit_code", "1111")))']_vars

TypeOK ==
    /\ \A r \in RunIds : run[r].pc \in
          {"idle", "parse", "load", "save", "sleep", "analytics", "an_load",
           "an_save", "done", "raised", "an_open", "an_dump", "res_open",
           "res_dump"}
====
